---- MODULE Spec2Model ----
(***************************************************************************)
(* A model of the accounting normalisation pipeline of slurm-usage-report: *)
(* the polars LazyFrame transformations of src/app/usage-report.py and     *)
(* src/app/utils.py (with the older variants of src/main.py and            *)
(* src/app/main.py where they differ).                                     *)
(*                                                                         *)
(* A LazyFrame is a record [schema, rows]: schema maps each column name to *)
(* its dtype, rows is the sequence of rows in input order, each row a      *)
(* record over the schema's columns.  A cell is NULL or V(x).  A string is *)
(* the sequence of its characters; a Float64 is an exact fraction.        *)
(***************************************************************************)
EXTENDS Integers, Sequences, FiniteSets, TLC

VARIABLES
    lf,     \* the LazyFrame the pipeline is working on, or the summary made of it
    pc,     \* the stage of the pipeline the frame is in
    date,   \* the target date argument of add_daily_duration (a day number)
    fired,  \* what the last step chose: for each row, the branch of the when/then
            \* chain that produced its value; or the behavior given to smart_aggregate
    raw,    \* the frame the pipeline was given (never changed); for the functions
            \* that read a file or a list of jobs, the lines or jobs given
    loc     \* the local variables of a function that loops over its input

vars == <<lf, pc, date, fired, raw, loc>>

(***************************************************************************)
(* Bounds of the model.                                                    *)
(***************************************************************************)
MaxRows == 2
MaxDay == 2

(***************************************************************************)
(* Cells, integers, floats.                                                *)
(***************************************************************************)
NULL == [null |-> TRUE]
V(x) == [null |-> FALSE, v |-> x]
IsNull(c) == c.null

Max2(a, b) == IF a >= b THEN a ELSE b
Min2(a, b) == IF a <= b THEN a ELSE b
Abs(a) == IF a < 0 THEN -a ELSE a

RECURSIVE GCD(_, _)
GCD(a, b) == IF b = 0 THEN a ELSE GCD(b, a % b)

\* The Float64 n / d for integers n and d, d > 0, as a reduced fraction.
Frac(n, d) ==
    LET g == GCD(Abs(n), d)
    IN  [num |-> n \div g, den |-> d \div g]

\* A float literal with an integer value, such as 24.0 or 0.0.
FloatLit(n) == [num |-> n, den |-> 1]

(***************************************************************************)
(* An Int64 is the record [m, e] that stands for m * 1024^e, with m not    *)
(* divisible by 1024 (zero is [0, 0]): byte counts such as 2 * 1024^3 are  *)
(* exact in it.  The model's quantities are non-negative and stay far      *)
(* below 2^63.                                                             *)
(***************************************************************************)
Kibi == 1024

RECURSIVE I64Norm(_, _)
I64Norm(m, e) ==
    IF m = 0 THEN [m |-> 0, e |-> 0]
    ELSE IF m % Kibi = 0 THEN I64Norm(m \div Kibi, e + 1)
    ELSE [m |-> m, e |-> e]

I64(n) == I64Norm(n, 0)

\* a * 1024**k
I64MulPow(a, k) == I64Norm(a.m, a.e + k)

RECURSIVE ShiftDown(_, _)
ShiftDown(n, d) == IF d = 0 \/ n = 0 THEN n ELSE ShiftDown(n \div Kibi, d - 1)

I64Leq(a, b) ==
    IF a.e = b.e THEN a.m <= b.m
    ELSE IF a.e > b.e THEN a.m <= ShiftDown(b.m, a.e - b.e)
    ELSE a.m = 0 \/ ~(b.m <= ShiftDown(a.m - 1, b.e - a.e))

NRows(frame) == Len(frame.rows)

\* lf.with_columns(expr.alias(name)): row i gets the cell cells[i] in the
\* column; an existing column of the same name is replaced.
WithColumn(frame, name, dtype, cells) ==
    [schema |-> [c \in (DOMAIN frame.schema) \cup {name} |->
                    IF c = name THEN dtype ELSE frame.schema[c]],
     rows |-> [i \in 1..Len(frame.rows) |->
                    [c \in (DOMAIN frame.schema) \cup {name} |->
                        IF c = name THEN cells[i] ELSE frame.rows[i][c]]]]

(***************************************************************************)
(* add_daily_duration (src/app/utils.py).                                  *)
(*                                                                         *)
(* A timestamp text "YYYY-MM-DDTHH:MM:SS" is the record [day, sec] of its  *)
(* calendar day (a day number) and its second of the day; str.to_datetime  *)
(* turns it into the number of seconds since midnight of day 0.            *)
(***************************************************************************)
SecondsPerDay == 86400
SecondsPerHour == 3600

to_datetime(ts) == ts.day * SecondsPerDay + ts.sec
dt_date(t) == t \div SecondsPerDay

day_start(target) == target * SecondsPerDay
day_end(target) == (target + 1) * SecondsPerDay

\* (a - b).dt.total_seconds() / 3600
hours_between(a, b) == Frac(a - b, SecondsPerHour)

\* Mutant of same_day: the end of the target day counts as falling on it.
same_day_inclusive(s, e, target) ==
    dt_date(s) = target /\ (dt_date(e) = target \/ e = day_end(target))

same_day(s, e, target) == dt_date(s) = target /\ dt_date(e) = target
\* Mutant of started_before: <= for <.
started_before_or_at(s, target) == s <= day_start(target)

started_before(s, target) == s < day_start(target)
ended_on_day(e, target) == dt_date(e) = target
started_on_day(s, target) == dt_date(s) = target
\* Mutant of ended_after: > for >=.
ended_after_strict(e, target) == e > day_end(target)

ended_after(e, target) == e >= day_end(target)
case_started_before(s, e, target) == started_before(s, target) /\ ended_on_day(e, target)
case_ended_after(s, e, target) == started_on_day(s, target) /\ ended_after(e, target)
spanning(s, e, target) == started_before(s, target) /\ ended_after(e, target)

\* The branch of the when/then/otherwise chain that fires (5 is otherwise).
daily_case(s, e, target) ==
    IF same_day(s, e, target) THEN 1
    ELSE IF case_started_before(s, e, target) THEN 2
    ELSE IF case_ended_after(s, e, target) THEN 3
    ELSE IF spanning(s, e, target) THEN 4
    ELSE 5

daily_duration(s, e, target) ==
    CASE daily_case(s, e, target) = 1 -> hours_between(e, s)
      [] daily_case(s, e, target) = 2 -> hours_between(e, day_start(target))
      [] daily_case(s, e, target) = 3 -> hours_between(day_end(target), s)
      [] daily_case(s, e, target) = 4 -> FloatLit(24)
      [] OTHER -> FloatLit(0)

\* A Start or End text that is no timestamp, such as "Unknown" for a job
\* that is still running, is the record [text]; str.to_datetime() is strict:
\* the first such text of the column makes the collection of the frame raise.
\* A null stays null.
str_to_datetime_raises(frame) ==
    \E i \in 1..NRows(frame) : \E c \in {"Start", "End"} :
        ~IsNull(frame.rows[i][c]) /\ "text" \in DOMAIN frame.rows[i][c].v

\* The branch of the chain for a row: with a null Start or End every
\* predicate of the chain is null or false, never true, and a when() whose
\* predicate is null is not taken, so the row gets the otherwise value.
row_daily_case(row, target) ==
    IF IsNull(row.Start) \/ IsNull(row.End) THEN 5
    ELSE daily_case(to_datetime(row.Start.v), to_datetime(row.End.v), target)

daily_duration_cell(row, target) ==
    IF IsNull(row.Start) \/ IsNull(row.End) THEN V(FloatLit(0))
    ELSE V(daily_duration(to_datetime(row.Start.v), to_datetime(row.End.v), target))

add_daily_duration(frame, target) ==
    WithColumn(frame, "daily_duration_hours", "Float64",
               [i \in 1..NRows(frame) |-> daily_duration_cell(frame.rows[i], target)])

(***************************************************************************)
(* Strings and the regular expressions of the parsers.                     *)
(*                                                                         *)
(* The patterns the code uses are sequences of \d+ and of single           *)
(* characters or character classes, so a greedy \d+ always takes a maximal *)
(* run of digits.                                                          *)
(***************************************************************************)
Digits == {"0", "1", "2", "3", "4", "5", "6", "7", "8", "9"}

DigitVal(c) ==
    CASE c = "0" -> 0 [] c = "1" -> 1 [] c = "2" -> 2 [] c = "3" -> 3
      [] c = "4" -> 4 [] c = "5" -> 5 [] c = "6" -> 6 [] c = "7" -> 7
      [] c = "8" -> 8 [] c = "9" -> 9

\* cast(pl.Int64) of a string of digits.
RECURSIVE StrToInt(_)
StrToInt(s) ==
    IF Len(s) = 0 THEN 0
    ELSE 10 * StrToInt(SubSeq(s, 1, Len(s) - 1)) + DigitVal(s[Len(s)])

AllDigits(s) == \A k \in 1..Len(s) : s[k] \in Digits

\* The length of the maximal run of characters of `class` that starts at s[i].
RunLen(s, i, class) ==
    CHOOSE n \in 0..(Len(s) + 1 - i) :
        /\ \A k \in 0..(n - 1) : s[i + k] \in class
        /\ (i + n > Len(s) \/ s[i + n] \notin class)

DigitRunLen(s, i) == RunLen(s, i, Digits)

(***************************************************************************)
(* add_slurm_jobinfo_type_columns (src/app/usage-report.py).               *)
(***************************************************************************)
\* The characters "." of a regex matches: every character but the newline.
IsDotChar(c) == c # "\n"

\* The length of the maximal run of non-newline characters starting at s[i].
DotRunLen(s, i) ==
    CHOOSE n \in 0..(Len(s) + 1 - i) :
        /\ \A k \in 0..(n - 1) : IsDotChar(s[i + k])
        /\ (i + n > Len(s) \/ ~IsDotChar(s[i + n]))

\* str.extract_groups(r"^(?<JobRoot>\d+)(?<_JobSuffix>\..+)?"): the pattern is
\* anchored at the start only; the optional group is taken when it matches.
jobid_groups(cell) ==
    IF IsNull(cell) \/ DigitRunLen(cell.v, 1) = 0
    THEN [JobRoot |-> NULL, JobSuffix |-> NULL]
    ELSE LET s == cell.v
             n == DigitRunLen(s, 1)
             m == DotRunLen(s, n + 2)
         IN  [JobRoot |-> V(SubSeq(s, 1, n)),
              JobSuffix |-> IF n + 1 <= Len(s) /\ s[n + 1] = "." /\ m >= 1
                            THEN V(SubSeq(s, n + 1, n + 1 + m))
                            ELSE NULL]

\* Mutant of is_step_suffix: the pattern without its closing $.
is_step_suffix_unanchored(s) ==
    /\ Len(s) >= 2
    /\ s[1] = "."
    /\ s[2] \in Digits

\* pl.col("_JobSuffix").str.contains(r"^\.\d+$")
is_step_suffix(s) ==
    /\ Len(s) >= 2
    /\ s[1] = "."
    /\ AllDigits(SubSeq(s, 2, Len(s)))

Allocation == <<"a", "l", "l", "o", "c", "a", "t", "i", "o", "n">>
Batch == <<"b", "a", "t", "c", "h">>
Extern == <<"e", "x", "t", "e", "r", "n">>
Step == <<"s", "t", "e", "p">>
Unknown == <<"u", "n", "k", "n", "o", "w", "n">>
DotBatch == <<".">> \o Batch
DotExtern == <<".">> \o Extern

jobinfo_type(suffix) ==
    IF IsNull(suffix) THEN V(Allocation)
    ELSE IF suffix.v = DotBatch THEN V(Batch)
    ELSE IF suffix.v = DotExtern THEN V(Extern)
    ELSE IF is_step_suffix(suffix.v) THEN V(Step)
    ELSE V(Unknown)

add_slurm_jobinfo_type_columns(frame) ==
    LET groups(i) == jobid_groups(frame.rows[i].JobID)
    IN  WithColumn(WithColumn(frame, "JobRoot", "String",
                              [i \in 1..NRows(frame) |-> groups(i).JobRoot]),
                   "JobInfoType", "String",
                   [i \in 1..NRows(frame) |-> jobinfo_type(groups(i).JobSuffix)])

(***************************************************************************)
(* add_units_kmg and convert_kmg_col (src/app/usage-report.py; the variant *)
(* of src/main.py matches the unit letter case-insensitively).             *)
(***************************************************************************)
UpperUnits == {"K", "M", "G", "T"}
LowerUnits == {"k", "m", "g", "t"}

\* The positions where (\d+)([units]) matches: a digit whose maximal run of
\* digits is followed by a unit letter.
size_match_starts(s, units) ==
    {i \in 1..Len(s) :
        /\ s[i] \in Digits
        /\ i + DigitRunLen(s, i) <= Len(s)
        /\ s[i + DigitRunLen(s, i)] \in units}

\* str.extract_groups(rf"(?<{colname}>\d+)(?<{colname}_unit>[KMGT])"): the
\* pattern is not anchored, so the leftmost match anywhere in the text is taken.
size_groups(cell, units) ==
    IF IsNull(cell) \/ size_match_starts(cell.v, units) = {}
    THEN [value |-> NULL, unit |-> NULL]
    ELSE LET s == cell.v
             starts == size_match_starts(s, units)
             i == CHOOSE k \in starts : \A j \in starts : k <= j
             n == DigitRunLen(s, i)
         IN  [value |-> V(SubSeq(s, i, i + n - 1)), unit |-> V(<<s[i + n]>>)]

UnitCol(colname) == colname \o "_unit"

add_units_with(frame, colname, units) ==
    LET value(row) == size_groups(row[colname], units).value
        unit(row) == size_groups(row[colname], units).unit
    IN  [schema |-> [c \in (DOMAIN frame.schema) \cup {UnitCol(colname)} |->
                        IF c \in {colname, UnitCol(colname)} THEN "String"
                        ELSE frame.schema[c]],
         rows |-> [i \in 1..Len(frame.rows) |->
                     [c \in (DOMAIN frame.schema) \cup {UnitCol(colname)} |->
                         IF c = colname THEN value(frame.rows[i])
                         ELSE IF c = UnitCol(colname) THEN unit(frame.rows[i])
                         ELSE frame.rows[i][c]]]]

add_units_kmg(frame, colname) == add_units_with(frame, colname, UpperUnits)

\* src/main.py: rf"(?i)(?<{colname}>\d+)(?<{colname}_unit>[kmgt])"
add_units_kmg_ignorecase(frame, colname) ==
    add_units_with(frame, colname, UpperUnits \cup LowerUnits)

\* Mutant of convert_kmg_value: the G branch multiplies by 1024**2.
convert_kmg_value_pasted(value, unit) ==
    IF IsNull(value) THEN NULL
    ELSE IF unit = V(<<"K">>) THEN V(I64MulPow(I64(StrToInt(value.v)), 1))
    ELSE IF unit = V(<<"M">>) THEN V(I64MulPow(I64(StrToInt(value.v)), 2))
    ELSE IF unit = V(<<"G">>) THEN V(I64MulPow(I64(StrToInt(value.v)), 2))
    ELSE NULL

\* The when/then chain of convert_kmg_col on one row.
convert_kmg_value(value, unit) ==
    IF IsNull(value) THEN NULL
    ELSE IF unit = V(<<"K">>) THEN V(I64MulPow(I64(StrToInt(value.v)), 1))
    ELSE IF unit = V(<<"M">>) THEN V(I64MulPow(I64(StrToInt(value.v)), 2))
    ELSE IF unit = V(<<"G">>) THEN V(I64MulPow(I64(StrToInt(value.v)), 3))
    ELSE NULL

convert_kmg_col(frame, colname) ==
    LET cols == (DOMAIN frame.schema) \ {UnitCol(colname)}
    IN  [schema |-> [c \in cols |-> IF c = colname THEN "Int64" ELSE frame.schema[c]],
         rows |-> [i \in 1..Len(frame.rows) |->
                     [c \in cols |->
                         IF c = colname
                         THEN convert_kmg_value(frame.rows[i][colname],
                                                frame.rows[i][UnitCol(colname)])
                         ELSE frame.rows[i][c]]]]

(***************************************************************************)
(* parse_total_cpu_col (src/app/usage-report.py, and the earlier variant   *)
(* of src/app/main.py).                                                    *)
(*                                                                         *)
(* A pattern is a sequence whose elements are "D", for a captured \d+, or  *)
(* a literal character.  The branches of a when/then chain that hold       *)
(* structs with different fields are unified by field name.                *)
(***************************************************************************)
\* The match of pat at position i of s: whether it matches, the captured runs
\* of digits, and the position after the match.
RECURSIVE MatchFrom(_, _, _, _)
MatchFrom(s, i, pat, caps) ==
    IF pat = <<>> THEN [ok |-> TRUE, caps |-> caps, end |-> i]
    ELSE IF Head(pat) = "D"
         THEN IF i > Len(s) \/ DigitRunLen(s, i) = 0
              THEN [ok |-> FALSE, caps |-> caps, end |-> i]
              ELSE MatchFrom(s, i + DigitRunLen(s, i), Tail(pat),
                             Append(caps, SubSeq(s, i, i + DigitRunLen(s, i) - 1)))
    ELSE IF i <= Len(s) /\ s[i] = Head(pat)
         THEN MatchFrom(s, i + 1, Tail(pat), caps)
         ELSE [ok |-> FALSE, caps |-> caps, end |-> i]

\* str.contains(r"^pat$") of a cell; a null cell gives null, which a when
\* takes as false.
contains_anchored(cell, pat) ==
    /\ ~IsNull(cell)
    /\ MatchFrom(cell.v, 1, pat, <<>>).ok
    /\ MatchFrom(cell.v, 1, pat, <<>>).end = Len(cell.v) + 1

\* str.extract_groups(pat), not anchored: the captures of the leftmost match,
\* or <<>> when there is none.
extract_groups(cell, pat) ==
    IF IsNull(cell) THEN <<>>
    ELSE LET s == cell.v
             starts == {i \in 1..Len(s) : MatchFrom(s, i, pat, <<>>).ok}
         IN  IF starts = {} THEN <<>>
             ELSE MatchFrom(s, CHOOSE k \in starts : \A j \in starts : k <= j,
                            pat, <<>>).caps

ShapeDHMS == <<"D", "-", "D", ":", "D", ":", "D">>
ShapeHMS == <<"D", ":", "D", ":", "D">>
ShapeMSFraction == <<"D", ":", "D", ".", "D">>
GroupsMS == <<"D", ":", "D">>

\* The branch of the first when/then chain of parse_total_cpu_col that fires
\* (4 is otherwise).
total_cpu_branch(cell) ==
    IF contains_anchored(cell, ShapeDHMS) THEN 1
    ELSE IF contains_anchored(cell, ShapeHMS) THEN 2
    ELSE IF contains_anchored(cell, ShapeMSFraction) THEN 3
    ELSE 4

Zero == <<"0">>

\* TotalCPU_Parsed: the struct of the branch that fires, a literal 0 taking the
\* String type of the captured fields.
total_cpu_parsed(cell) ==
    LET b == total_cpu_branch(cell)
        g == CASE b = 1 -> extract_groups(cell, ShapeDHMS)
               [] b = 2 -> extract_groups(cell, ShapeHMS)
               [] b = 3 -> extract_groups(cell, GroupsMS)
               [] OTHER -> <<>>
    IN  CASE b = 1 -> [days |-> g[1], hours |-> g[2], minutes |-> g[3], seconds |-> g[4]]
          [] b = 2 -> [days |-> Zero, hours |-> g[1], minutes |-> g[2], seconds |-> g[3]]
          [] b = 3 -> [days |-> Zero, hours |-> Zero, minutes |-> g[1], seconds |-> g[2]]
          [] OTHER -> [days |-> Zero, hours |-> Zero, minutes |-> Zero, seconds |-> Zero]

SecondsPerMinute == 60

\* Mutant of total_seconds: an hour counted as 60 seconds.
total_seconds_short_hours(days, hours, minutes, seconds) ==
    days * SecondsPerDay + hours * SecondsPerMinute + minutes * SecondsPerMinute + seconds

\* days * 86400 + hours * 3600 + minutes * 60 + seconds
total_seconds(days, hours, minutes, seconds) ==
    days * SecondsPerDay + hours * SecondsPerHour + minutes * SecondsPerMinute + seconds

total_cpu_seconds(cell) ==
    LET t == total_cpu_parsed(cell)
    IN  V(I64(total_seconds(StrToInt(t.days), StrToInt(t.hours),
                            StrToInt(t.minutes), StrToInt(t.seconds))))

parse_total_cpu_col(frame) ==
    WithColumn(frame, "TotalCPU_seconds", "Int64",
               [i \in 1..NRows(frame) |-> total_cpu_seconds(frame.rows[i].TotalCPU)])

\* src/app/main.py: the branches hold only the captured fields, otherwise is a
\* null, and the seconds are computed from the fields that are not null.
total_cpu_seconds_v1(cell) ==
    LET b == total_cpu_branch(cell)
        g == CASE b = 1 -> extract_groups(cell, ShapeDHMS)
               [] b = 2 -> extract_groups(cell, ShapeHMS)
               [] b = 3 -> extract_groups(cell, GroupsMS)
               [] OTHER -> <<>>
    IN  CASE b = 1 -> V(I64(total_seconds(StrToInt(g[1]), StrToInt(g[2]),
                                          StrToInt(g[3]), StrToInt(g[4]))))
          [] b = 2 -> V(I64(total_seconds(0, StrToInt(g[1]), StrToInt(g[2]), StrToInt(g[3]))))
          [] b = 3 -> V(I64(total_seconds(0, 0, StrToInt(g[1]), StrToInt(g[2]))))
          [] OTHER -> NULL

parse_total_cpu_col_v1(frame) ==
    WithColumn(frame, "TotalCPU_seconds", "Int64",
               [i \in 1..NRows(frame) |-> total_cpu_seconds_v1(frame.rows[i].TotalCPU)])

(***************************************************************************)
(* aggregate_per_alloc (src/app/usage-report.py).                          *)
(***************************************************************************)
\* The cells of column c in the rows of the group `key` of column group_col,
\* in input order.
GroupCells(frame, group_col, key, c) ==
    LET idx == {i \in 1..Len(frame.rows) : frame.rows[i][group_col] = key}
        nth[k \in 1..Cardinality(idx)] ==
            CHOOSE i \in idx : Cardinality({j \in idx : j < i}) = k - 1
    IN  [k \in 1..Cardinality(idx) |-> frame.rows[nth[k]][c]]

GroupKeys(frame, group_col) ==
    {frame.rows[i][group_col] : i \in 1..Len(frame.rows)}

NonNull(cells) == SelectSeq(cells, LAMBDA c : ~IsNull(c))

\* Mutant of int_max: the value of the first record of the group.
int_max_of_first(cells) == IF Len(cells) = 0 THEN NULL ELSE cells[1]

\* pl.col(c).max() of an Int64 column: nulls are skipped, all null gives null.
int_max(cells) ==
    LET vals == {NonNull(cells)[k].v : k \in 1..Len(NonNull(cells))}
    IN  IF vals = {} THEN NULL
        ELSE V(CHOOSE m \in vals : \A x \in vals : I64Leq(x, m))

FloatLeq(a, b) == a.num * b.den <= b.num * a.den

\* pl.col(c).max() of a Float64 column.
float_max(cells) ==
    LET vals == {NonNull(cells)[k].v : k \in 1..Len(NonNull(cells))}
    IN  IF vals = {} THEN NULL
        ELSE V(CHOOSE m \in vals : \A x \in vals : FloatLeq(x, m))

\* Mutant of first_non_null: the first value, missing or not.
first_cell(cells) == IF Len(cells) = 0 THEN NULL ELSE cells[1]

\* pl.col(c).drop_nulls().first()
first_non_null(cells) ==
    IF Len(NonNull(cells)) = 0 THEN NULL ELSE NonNull(cells)[1]

AggregableTypes == {"Int64", "Float64", "String"}

aggregate_behavior(col_type, cells) ==
    CASE col_type = "Int64" -> int_max(cells)
      [] col_type = "Float64" -> float_max(cells)
      [] col_type = "String" -> first_non_null(cells)

\* The sequences that list every element of S once: group_by promises no
\* order of the groups it returns.
Orders(S) ==
    {f \in [1..Cardinality(S) -> S] : \A x \in S : \E i \in DOMAIN f : f[i] = x}

\* Mutant of aggregate_per_alloc: the records are not grouped.
aggregate_per_alloc_ungrouped(frame, group_col, order) == frame

\* lf.group_by(group_col).agg(...), the groups returned in the order `order`.
aggregate_per_alloc(frame, group_col, order) ==
    [schema |-> frame.schema,
     rows |-> [k \in 1..Len(order) |->
                 [c \in DOMAIN frame.schema |->
                     IF c = group_col THEN order[k]
                     ELSE aggregate_behavior(frame.schema[c],
                              GroupCells(frame, group_col, order[k], c))]]]

(***************************************************************************)
(* The daily-overlap specification: a frame of jobs with Start and End,    *)
(* and a target date; add_daily_duration is applied to it.                 *)
(***************************************************************************)
SecondsOfDay == {0, 43200}
Days == 0..MaxDay
TargetDays == 1..(MaxDay - 1)
Timestamps == [day : Days, sec : SecondsOfDay]
DailyRows == [Start : {V(t) : t \in Timestamps}, End : {V(t) : t \in Timestamps}]
DailySchema == [c \in {"Start", "End"} |-> "String"]

FramesOf(schema, rowset) ==
    {[schema |-> schema, rows |-> r] :
        r \in UNION {[1..n -> rowset] : n \in 0..MaxRows}}

NoBranch == <<>>

InitDaily ==
    /\ lf \in FramesOf(DailySchema, DailyRows)
    /\ raw = lf
    /\ pc = "raw"
    /\ date \in TargetDays
    /\ fired = NoBranch
    /\ loc = NoBranch

\* add_daily_duration and the collection of its result: pc is "raised" when
\* the collection raises.
AddDailyDuration ==
    /\ pc = "raw"
    /\ DOMAIN lf.schema = {"Start", "End"}
    /\ IF str_to_datetime_raises(lf)
       THEN /\ pc' = "raised"
            /\ UNCHANGED <<lf, fired>>
       ELSE /\ lf' = add_daily_duration(lf, date)
            /\ fired' = [i \in 1..NRows(lf) |-> row_daily_case(lf.rows[i], date)]
            /\ pc' = "daily"
    /\ UNCHANGED <<date, raw, loc>>

NextDaily == AddDailyDuration

SpecDaily == InitDaily /\ [][NextDaily]_vars

\* Records of the target day whose Start or End may be missing, or be the
\* text a job that has not started or ended yet carries.
InitMalformed ==
    /\ lf \in FramesOf(DailySchema,
                 LET cells == {NULL, V([text |-> "Unknown"])}
                                 \cup {V(t) : t \in {u \in Timestamps : u.day = 1}}
                 IN  [Start : cells, End : cells])
    /\ raw = lf
    /\ pc = "raw"
    /\ date \in TargetDays
    /\ fired = NoBranch
    /\ loc = NoBranch

SpecMalformed == InitMalformed /\ [][NextDaily]_vars

(***************************************************************************)
(* The allocation specification: a frame of job identifiers is classified  *)
(* by add_slurm_jobinfo_type_columns and consolidated per JobRoot by       *)
(* aggregate_per_alloc, as generic_report does.                            *)
(***************************************************************************)
JobRoots == {<<"7">>, <<"1", "2">>}

JobTails ==
    {<<>>,
     DotBatch,
     DotExtern,
     <<".", "0">>,
     <<".", "1", "5">>,
     <<".", "x">>,
     <<".", "b", "a", "t", "c", "h", "x">>,
     <<".", "0", "a">>,
     <<".", "0", ".", "1">>,
     <<".">>,
     <<"_", "1">>,
     <<"a", "b", "c">>}

NonNumericJobIDs ==
    {<<>>, <<"a", "b">>, DotBatch, <<"x", "7">>}

JobIDs == {r \o t : r \in JobRoots, t \in JobTails} \cup NonNumericJobIDs

JobIdRows == [JobID : {V(id) : id \in JobIDs}]
JobIdSchema == [c \in {"JobID"} |-> "String"]

InitAlloc ==
    /\ lf \in FramesOf(JobIdSchema, JobIdRows)
    /\ raw = lf
    /\ pc = "raw"
    /\ date = 0
    /\ fired = NoBranch
    /\ loc = NoBranch

AddJobinfoType ==
    /\ pc = "raw"
    /\ "JobID" \in DOMAIN lf.schema
    /\ lf' = add_slurm_jobinfo_type_columns(lf)
    /\ pc' = "typed"
    /\ UNCHANGED <<date, fired, raw, loc>>

AggregatePerAlloc ==
    /\ pc = "typed"
    /\ \A c \in DOMAIN lf.schema : lf.schema[c] \in AggregableTypes
    /\ \E order \in Orders(GroupKeys(lf, "JobRoot")) :
          lf' = aggregate_per_alloc(lf, "JobRoot", order)
    /\ pc' = "alloc"
    /\ UNCHANGED <<date, fired, raw, loc>>

NextAlloc == AddJobinfoType \/ AggregatePerAlloc

SpecAlloc == InitAlloc /\ [][NextAlloc]_vars

(***************************************************************************)
(* The size-parser specification: a frame with a ReqMem column of size     *)
(* texts goes through add_units_kmg (either variant) and convert_kmg_col.  *)
(***************************************************************************)
SizeNumbers == {<<"2">>, <<"1", "0">>, <<"5", "1", "2">>}

SizeTails ==
    {<<>>, <<"K">>, <<"M">>, <<"G">>, <<"T">>,
     <<"k">>, <<"m">>, <<"g">>, <<"t">>, <<"X">>}

IrregularSizes ==
    {<<>>,
     <<"G">>,
     <<"1", ".", "5", "G">>,
     <<"1", "0", "K", "X">>,
     <<"4", "0", "0", "0", "M", "c">>,
     <<"a", "2", "G">>,
     <<"7", "X", "3", "M">>}

SizeTexts == {n \o t : n \in SizeNumbers, t \in SizeTails} \cup IrregularSizes

SizeRows == [ReqMem : {NULL} \cup {V(t) : t \in SizeTexts}]
SizeSchema == [c \in {"ReqMem"} |-> "String"]

InitSize ==
    /\ lf \in FramesOf(SizeSchema, SizeRows)
    /\ raw = lf
    /\ pc = "raw"
    /\ date = 0
    /\ fired = NoBranch
    /\ loc = NoBranch

AddUnitsKmg ==
    /\ pc = "raw"
    /\ "ReqMem" \in DOMAIN lf.schema
    /\ lf' = add_units_kmg(lf, "ReqMem")
    /\ pc' = "units"
    /\ UNCHANGED <<date, fired, raw, loc>>

AddUnitsKmgIgnoreCase ==
    /\ pc = "raw"
    /\ "ReqMem" \in DOMAIN lf.schema
    /\ lf' = add_units_kmg_ignorecase(lf, "ReqMem")
    /\ pc' = "units"
    /\ UNCHANGED <<date, fired, raw, loc>>

ConvertKmgCol ==
    /\ pc = "units"
    /\ lf' = convert_kmg_col(lf, "ReqMem")
    /\ pc' = "bytes"
    /\ UNCHANGED <<date, fired, raw, loc>>

NextSize == AddUnitsKmg \/ AddUnitsKmgIgnoreCase \/ ConvertKmgCol

SpecSize == InitSize /\ [][NextSize]_vars

(***************************************************************************)
(* The duration-parser specification: a frame with a TotalCPU column goes  *)
(* through parse_total_cpu_col (either variant).                           *)
(***************************************************************************)
CpuDays == {<<"1">>, <<"1", "2">>}
CpuHours == {<<"0", "2">>, <<"2", "3">>}
CpuMinutes == {<<"0", "3">>}
CpuSeconds == {<<"0", "4">>, <<"5", "9">>}
CpuFractions == {<<"5">>, <<"9", "9", "9">>}

TextsDHMS ==
    {d \o <<"-">> \o h \o <<":">> \o m \o <<":">> \o x :
        d \in CpuDays, h \in CpuHours, m \in CpuMinutes, x \in CpuSeconds}
TextsHMS ==
    {h \o <<":">> \o m \o <<":">> \o x : h \in CpuHours, m \in CpuMinutes, x \in CpuSeconds}
TextsMSFraction ==
    {m \o <<":">> \o x \o <<".">> \o f : m \in CpuMinutes, x \in CpuSeconds, f \in CpuFractions}

IrregularCpuTexts ==
    {<<>>,
     <<"g", "a", "r", "b", "a", "g", "e">>,
     <<"0", "3", ":", "0", "4">>,
     <<"1", "2">>,
     <<"1", "-", "0", "2", ":", "0", "3">>,
     <<"0", "2", ":", "0", "3", ":", "0", "4", ".", "5">>,
     <<"x", "0", "2", ":", "0", "3", ":", "0", "4">>,
     <<"0", "2", ":", "0", "3", ":", "0", "4", " ">>}

CpuTexts == TextsDHMS \cup TextsHMS \cup TextsMSFraction \cup IrregularCpuTexts

CpuRows == [TotalCPU : {NULL} \cup {V(t) : t \in CpuTexts}]
CpuSchema == [c \in {"TotalCPU"} |-> "String"]

InitCpu ==
    /\ lf \in FramesOf(CpuSchema, CpuRows)
    /\ raw = lf
    /\ pc = "raw"
    /\ date = 0
    /\ fired = NoBranch
    /\ loc = NoBranch

ParseTotalCpuCol ==
    /\ pc = "raw"
    /\ "TotalCPU" \in DOMAIN lf.schema
    /\ lf' = parse_total_cpu_col(lf)
    /\ fired' = [i \in 1..NRows(lf) |-> total_cpu_branch(lf.rows[i].TotalCPU)]
    /\ pc' = "cpu"
    /\ UNCHANGED <<date, raw, loc>>

ParseTotalCpuColV1 ==
    /\ pc = "raw"
    /\ "TotalCPU" \in DOMAIN lf.schema
    /\ lf' = parse_total_cpu_col_v1(lf)
    /\ fired' = [i \in 1..NRows(lf) |-> total_cpu_branch(lf.rows[i].TotalCPU)]
    /\ pc' = "cpu_v1"
    /\ UNCHANGED <<date, raw, loc>>

NextCpu == ParseTotalCpuCol \/ ParseTotalCpuColV1

SpecCpu == InitCpu /\ [][NextCpu]_vars

(***************************************************************************)
(* generic_report (src/app/usage-report.py) and smart_aggregate            *)
(* (src/main.py).                                                          *)
(*                                                                         *)
(* The Float64 results of a division by zero are the fractions of          *)
(* denominator 0: 0 / 0 is NaN and x / 0, x > 0, is inf.                   *)
(***************************************************************************)
NaN == [num |-> 0, den |-> 0]
Inf == [num |-> 1, den |-> 0]

\* a.truediv(b), or a / b, of two Int64 cells: a Float64; null when an
\* operand is null.
truediv(a, b) ==
    IF IsNull(a) \/ IsNull(b) THEN NULL
    ELSE IF b.v.m = 0 THEN (IF a.v.m = 0 THEN V(NaN) ELSE V(Inf))
    ELSE IF a.v.m = 0 THEN V(FloatLit(0))
    ELSE LET pow[n \in 0..4] == IF n = 0 THEN 1 ELSE Kibi * pow[n - 1]
             k == a.v.e - b.v.e
         IN  V(Frac(a.v.m * pow[Max2(k, 0)], b.v.m * pow[Max2(-k, 0)]))

\* a * b of two Int64 cells.
int_mul(a, b) ==
    IF IsNull(a) \/ IsNull(b) THEN NULL
    ELSE V(I64Norm(a.v.m * b.v.m, a.v.e + b.v.e))

\* c.mul(n) of a Float64 cell and a positive integer literal.
float_mul(c, n) ==
    IF IsNull(c) \/ c.v.den = 0 THEN c
    ELSE V(Frac(c.v.num * n, c.v.den))

\* c.fill_nan(n): only NaN is replaced; null and inf are left as they are.
fill_nan(c, n) == IF c = V(NaN) THEN V(FloatLit(n)) ELSE c

\* col_to_gigabytes(lf, colname, keep_original=True): colname / 2**30.
col_to_gigabytes(frame, colname) ==
    WithColumn(frame, colname \o "_G", "Float64",
               [i \in 1..NRows(frame) |->
                   truediv(frame.rows[i][colname], V(I64MulPow(I64(1), 3)))])

\* The lines of generic_report before the aggregation.
generic_report_fields(frame) ==
    LET typed == add_slurm_jobinfo_type_columns(frame)
        rss == col_to_gigabytes(
                   convert_kmg_col(add_units_kmg(typed, "MaxRSS"), "MaxRSS"), "MaxRSS")
    IN  col_to_gigabytes(
            convert_kmg_col(add_units_kmg(rss, "ReqMem"), "ReqMem"), "ReqMem")

\* Mutant of generic_report_efficiency: the ratio ReqMem / MaxRSS.
generic_report_efficiency_inverted(frame) ==
    LET ratio == WithColumn(frame, "MemEfficiencyRatio", "Float64",
                     [i \in 1..NRows(frame) |->
                         truediv(frame.rows[i].ReqMem, frame.rows[i].MaxRSS)])
        mem == WithColumn(ratio, "MemEfficiencyPercent", "Float64",
                     [i \in 1..NRows(frame) |->
                         float_mul(ratio.rows[i].MemEfficiencyRatio, 100)])
        cpu == parse_total_cpu_col(mem)
    IN  WithColumn(cpu, "CPUEfficiencyPercent", "Float64",
            [i \in 1..NRows(frame) |->
                float_mul(fill_nan(truediv(cpu.rows[i].TotalCPU_seconds,
                                           int_mul(cpu.rows[i].ElapsedRaw,
                                                   cpu.rows[i].AllocCPUS)), 0), 100)])

\* The lines of generic_report after the aggregation: MemEfficiencyRatio,
\* MemEfficiencyPercent, parse_total_cpu_col, CPUEfficiencyPercent.
generic_report_efficiency(frame) ==
    LET ratio == WithColumn(frame, "MemEfficiencyRatio", "Float64",
                     [i \in 1..NRows(frame) |->
                         truediv(frame.rows[i].MaxRSS, frame.rows[i].ReqMem)])
        mem == WithColumn(ratio, "MemEfficiencyPercent", "Float64",
                     [i \in 1..NRows(frame) |->
                         float_mul(ratio.rows[i].MemEfficiencyRatio, 100)])
        cpu == parse_total_cpu_col(mem)
    IN  WithColumn(cpu, "CPUEfficiencyPercent", "Float64",
            [i \in 1..NRows(frame) |->
                float_mul(fill_nan(truediv(cpu.rows[i].TotalCPU_seconds,
                                           int_mul(cpu.rows[i].ElapsedRaw,
                                                   cpu.rows[i].AllocCPUS)), 0), 100)])

\* pl.col(c).min() of an Int64 column: nulls are skipped, all null gives null.
int_min(cells) ==
    LET vals == {NonNull(cells)[k].v : k \in 1..Len(NonNull(cells))}
    IN  IF vals = {} THEN NULL
        ELSE V(CHOOSE m \in vals : \A x \in vals : I64Leq(m, x))

\* The reducers a caller of smart_aggregate passes in `behavior`, by name:
\* "min" is lambda c: pl.col(c).min(); "allocation_first" is the first
\* non-null value among the rows of the group whose JobInfoType is allocation.
behavior_expr(name, frame, group_col, key, c) ==
    CASE name = "min" -> int_min(GroupCells(frame, group_col, key, c))
      [] name = "allocation_first" ->
            first_non_null(GroupCells(
                [frame EXCEPT !.rows = SelectSeq(frame.rows,
                    LAMBDA row : row.JobInfoType = V(Allocation))],
                group_col, key, c))

\* Mutant of smart_aggregate: `behavior` is ignored.
smart_aggregate_default_only(frame, group_col, behavior, order) ==
    aggregate_per_alloc(frame, group_col, order)

\* smart_aggregate(lf, group_col, behavior), the groups returned in the order
\* `order`; behavior is a function from column names to reducer names, the
\* empty function for None.
smart_aggregate(frame, group_col, behavior, order) ==
    [schema |-> frame.schema,
     rows |-> [k \in 1..Len(order) |->
                 [c \in DOMAIN frame.schema |->
                     IF c = group_col THEN order[k]
                     ELSE IF c \in DOMAIN behavior
                          THEN behavior_expr(behavior[c], frame, group_col, order[k], c)
                     ELSE aggregate_behavior(frame.schema[c],
                              GroupCells(frame, group_col, order[k], c))]]]

(***************************************************************************)
(* The report specification: a frame of raw accounting records goes        *)
(* through generic_report, step by step; smart_aggregate is the aggregator *)
(* of src/main.py, called with a behavior.                                 *)
(***************************************************************************)
ReportSchema ==
    [c \in {"JobID", "MaxRSS", "ReqMem", "TotalCPU", "ElapsedRaw", "AllocCPUS"} |->
        IF c \in {"ElapsedRaw", "AllocCPUS"} THEN "Int64" ELSE "String"]

\* A usual record (512M used of 8G, 2 minutes of CPU in 60 seconds on 2 CPUs)
\* and the records that differ from it in the memory fields or in the CPU
\* fields, as the allocation row of job 7; the batch step of job 7, usual,
\* without ReqMem or with another TotalCPU; and the usual record of job 12
\* and of an identifier without number.
ReportRows ==
    LET usual == [MaxRSS |-> V(<<"5", "1", "2", "M">>),
                  ReqMem |-> V(<<"8", "G">>),
                  TotalCPU |-> V(<<"0", "0", ":", "0", "2", ":", "0", "0">>),
                  ElapsedRaw |-> V(I64(60)),
                  AllocCPUS |-> V(I64(2))]
        no_reqmem == [usual EXCEPT !.ReqMem = NULL]
        one_minute == [usual EXCEPT !.TotalCPU = V(<<"0", "0", ":", "0", "1", ":", "0", "0">>)]
        memory == {[usual EXCEPT !.MaxRSS = NULL],
                   no_reqmem,
                   [usual EXCEPT !.MaxRSS = V(<<"0", "K">>), !.ReqMem = V(<<"0", "M">>)],
                   [usual EXCEPT !.ReqMem = V(<<"0", "M">>)]}
        cpu == {one_minute,
                [usual EXCEPT !.TotalCPU = NULL],
                [usual EXCEPT !.TotalCPU = V(<<>>)],
                [usual EXCEPT !.TotalCPU = V(<<"0", "0", ":", "0", "0", ":", "0", "0">>),
                              !.ElapsedRaw = V(I64(0))],
                [usual EXCEPT !.ElapsedRaw = V(I64(0))],
                [usual EXCEPT !.ElapsedRaw = NULL],
                [usual EXCEPT !.AllocCPUS = NULL]}
        record(id, f) == [c \in DOMAIN ReportSchema |->
                             IF c = "JobID" THEN V(id) ELSE f[c]]
    IN  {record(<<"7">>, f) : f \in {usual} \cup memory \cup cpu}
        \cup {record(<<"7">> \o DotBatch, f) : f \in {usual, no_reqmem, one_minute}}
        \cup {record(id, usual) : id \in {<<"1", "2">>, <<"x">>}}

\* The `behavior` arguments: none, and dictionaries that name two columns,
\* and the grouping column with another one.
Behaviors ==
    {[c \in {} |-> "min"],
     [c \in {"TotalCPU", "AllocCPUS"} |->
         IF c = "TotalCPU" THEN "allocation_first" ELSE "min"],
     [c \in {"JobRoot", "ElapsedRaw"} |-> "min"]}

InitReport ==
    /\ lf \in FramesOf(ReportSchema, ReportRows)
    /\ raw = lf
    /\ pc = "raw"
    /\ date = 0
    /\ fired = NoBranch
    /\ loc = NoBranch

PrepareFields ==
    /\ pc = "raw"
    /\ "MaxRSS" \in DOMAIN lf.schema
    /\ lf' = generic_report_fields(lf)
    /\ pc' = "fields"
    /\ UNCHANGED <<date, fired, raw, loc>>

AggregateAllocs ==
    /\ pc = "fields"
    /\ \A c \in DOMAIN lf.schema : lf.schema[c] \in AggregableTypes
    /\ \E order \in Orders(GroupKeys(lf, "JobRoot")) :
          lf' = aggregate_per_alloc(lf, "JobRoot", order)
    /\ pc' = "merged"
    /\ UNCHANGED <<date, fired, raw, loc>>

SmartAggregate ==
    /\ pc = "fields"
    /\ \A c \in DOMAIN lf.schema : lf.schema[c] \in AggregableTypes
    /\ \E behavior \in Behaviors, order \in Orders(GroupKeys(lf, "JobRoot")) :
          /\ lf' = smart_aggregate(lf, "JobRoot", behavior, order)
          /\ fired' = behavior
    /\ pc' = "smart"
    /\ UNCHANGED <<date, raw, loc>>

GenericEfficiency ==
    /\ pc = "merged"
    /\ lf' = generic_report_efficiency(lf)
    /\ pc' = "report"
    /\ UNCHANGED <<date, fired, raw, loc>>

NextReport == PrepareFields \/ AggregateAllocs \/ SmartAggregate \/ GenericEfficiency

SpecReport == InitReport /\ [][NextReport]_vars

(***************************************************************************)
(* aggregate_per_snakemake_rule (src/app/usage-report.py): the statistics  *)
(* of a group.  Every statistic skips the nulls of its column, and is null *)
(* when nothing is left.  A standard deviation is the record [root_of] of  *)
(* the variance it is the square root of.                                  *)
(***************************************************************************)
\* a + b of two Float64 values.
float_add(a, b) == Frac(a.num * b.den + b.num * a.den, a.den * b.den)

\* Mutant of float_mean: a null counts as 0.0.
float_mean_nulls_as_zero(cells) ==
    LET n == Len(cells)
        value(k) == IF IsNull(cells[k]) THEN FloatLit(0) ELSE cells[k].v
        sum[k \in 0..n] == IF k = 0 THEN FloatLit(0) ELSE float_add(sum[k - 1], value(k))
    IN  IF n = 0 THEN NULL ELSE V(Frac(sum[n].num, sum[n].den * n))

\* pl.col(c).mean()
float_mean(cells) ==
    LET vals == NonNull(cells)
        n == Len(vals)
        sum[k \in 0..n] == IF k = 0 THEN FloatLit(0) ELSE float_add(sum[k - 1], vals[k].v)
    IN  IF n = 0 THEN NULL ELSE V(Frac(sum[n].num, sum[n].den * n))

\* pl.col(c).median(): the middle of the sorted values, the mean of the two
\* middle ones when their number is even.
float_median(cells) ==
    LET vals == NonNull(cells)
        n == Len(vals)
        less(i, j) == ~FloatLeq(vals[j].v, vals[i].v)
        pos(i) == 1 + Cardinality({j \in 1..n : less(j, i) \/ (j < i /\ vals[j] = vals[i])})
        sorted == [p \in 1..n |-> vals[CHOOSE i \in 1..n : pos(i) = p].v]
        two == float_add(sorted[(n + 1) \div 2], sorted[n \div 2 + 1])
    IN  IF n = 0 THEN NULL ELSE V(Frac(two.num, two.den * 2))

\* pl.col(c).std(): the sample standard deviation (ddof = 1), null when fewer
\* than two values are left.
float_std(cells) ==
    LET vals == NonNull(cells)
        n == Len(vals)
        mean == float_mean(cells).v
        square(x) == Frac((x.num * mean.den - mean.num * x.den) * (x.num * mean.den - mean.num * x.den),
                          x.den * mean.den * x.den * mean.den)
        sum[k \in 0..n] == IF k = 0 THEN FloatLit(0)
                           ELSE float_add(sum[k - 1], square(vals[k].v))
    IN  IF n <= 1 THEN NULL
        ELSE V([root_of |-> Frac(sum[n].num, sum[n].den * (n - 1))])

\* pl.col(c).min() of a Float64 column.
float_min(cells) ==
    LET vals == {NonNull(cells)[k].v : k \in 1..Len(NonNull(cells))}
    IN  IF vals = {} THEN NULL
        ELSE V(CHOOSE m \in vals : \A x \in vals : FloatLeq(m, x))

\* lf.group_by("rule_name").agg(...), the groups returned in the order `order`.
\* The Int64 ElapsedRaw (below 1024 in the model) is cast to Float64 for its
\* mean, median and std; the min and max of the String Elapsed follow the
\* order of the characters, where ":" comes after the digits.
aggregate_per_snakemake_rule(frame, order) ==
    LET group(key, c) == GroupCells(frame, "rule_name", key, c)
        cast(c) == IF IsNull(c) THEN NULL ELSE V(FloatLit(c.v.m))
        elapsed(key) == [k \in 1..Len(group(key, "ElapsedRaw")) |->
                            cast(group(key, "ElapsedRaw")[k])]
        rank(ch) == IF ch \in Digits THEN DigitVal(ch) ELSE 10
        str_leq(a, b) ==
            \/ a = b
            \/ \E i \in 1..(Len(b)) :
                  /\ \A j \in 1..(i - 1) : j <= Len(a) /\ a[j] = b[j]
                  /\ (i > Len(a) \/ rank(a[i]) < rank(b[i]))
        texts(key) == {NonNull(group(key, "Elapsed"))[k].v :
                          k \in 1..Len(NonNull(group(key, "Elapsed")))}
        str_min(key) == IF texts(key) = {} THEN NULL
                        ELSE V(CHOOSE m \in texts(key) : \A x \in texts(key) : str_leq(m, x))
        str_max(key) == IF texts(key) = {} THEN NULL
                        ELSE V(CHOOSE m \in texts(key) : \A x \in texts(key) : str_leq(x, m))
        summary(key) ==
            [rule_name |-> key,
             MemEfficiencyPercent_mean |-> float_mean(group(key, "MemEfficiencyPercent")),
             MemEfficiencyPercent_median |-> float_median(group(key, "MemEfficiencyPercent")),
             MemEfficiencyPercent_std |-> float_std(group(key, "MemEfficiencyPercent")),
             MemEfficiencyPercent_min |-> float_min(group(key, "MemEfficiencyPercent")),
             MemEfficiencyPercent_max |-> float_max(group(key, "MemEfficiencyPercent")),
             CPUEfficiencyPercent_mean |-> float_mean(group(key, "CPUEfficiencyPercent")),
             CPUEfficiencyPercent_median |-> float_median(group(key, "CPUEfficiencyPercent")),
             CPUEfficiencyPercent_std |-> float_std(group(key, "CPUEfficiencyPercent")),
             CPUEfficiencyPercent_min |-> float_min(group(key, "CPUEfficiencyPercent")),
             CPUEfficiencyPercent_max |-> float_max(group(key, "CPUEfficiencyPercent")),
             ElapsedRaw_mean |-> float_mean(elapsed(key)),
             ElapsedRaw_median |-> float_median(elapsed(key)),
             ElapsedRaw_std |-> float_std(elapsed(key)),
             ElapsedRaw_min |-> int_min(group(key, "ElapsedRaw")),
             ElapsedRaw_max |-> int_max(group(key, "ElapsedRaw")),
             Elapsed_min |-> str_min(key),
             Elapsed_max |-> str_max(key),
             QOS |-> first_non_null(group(key, "QOS")),
             Account |-> first_non_null(group(key, "Account")),
             NodeList |-> first_non_null(group(key, "NodeList"))]
        dtype(c) == IF c \in {"rule_name", "Elapsed_min", "Elapsed_max", "QOS",
                              "Account", "NodeList"} THEN "String"
                    ELSE IF c \in {"ElapsedRaw_min", "ElapsedRaw_max"} THEN "Int64"
                    ELSE "Float64"
    IN  [schema |-> [c \in DOMAIN summary(NULL) |-> dtype(c)],
         rows |-> [k \in 1..Len(order) |-> summary(order[k])]]

(***************************************************************************)
(* The rule specification: a frame of efficiency-annotated records that    *)
(* carry a rule name is summarised by aggregate_per_snakemake_rule.        *)
(***************************************************************************)
\* The records of two rules; the metrics of a record are 10, 20, 12.5 percent
\* of memory or none, 50 or 100 percent of CPU or none, 30 or 60 seconds or
\* none.
RuleRows ==
    LET metrics ==
            {[MemEfficiencyPercent |-> V(FloatLit(10)), CPUEfficiencyPercent |-> NULL,
              ElapsedRaw |-> V(I64(30)),
              Elapsed |-> V(<<"0", "0", ":", "0", "0", ":", "3", "0">>),
              QOS |-> V(<<"n">>)],
             [MemEfficiencyPercent |-> V(FloatLit(20)), CPUEfficiencyPercent |-> V(FloatLit(50)),
              ElapsedRaw |-> NULL, Elapsed |-> NULL, QOS |-> NULL],
             [MemEfficiencyPercent |-> NULL, CPUEfficiencyPercent |-> V(FloatLit(100)),
              ElapsedRaw |-> V(I64(60)),
              Elapsed |-> V(<<"0", "0", ":", "0", "1", ":", "0", "0">>),
              QOS |-> V(<<"u">>)],
             [MemEfficiencyPercent |-> V(Frac(25, 2)), CPUEfficiencyPercent |-> V(FloatLit(50)),
              ElapsedRaw |-> V(I64(60)),
              Elapsed |-> V(<<"0", "0", ":", "0", "1", ":", "0", "0">>),
              QOS |-> V(<<"n">>)]}
        record(rule, m) ==
            [c \in (DOMAIN m) \cup {"rule_name", "Account", "NodeList"} |->
                IF c = "rule_name" THEN V(rule)
                ELSE IF c = "Account" THEN V(<<"l", "a", "b">>)
                ELSE IF c = "NodeList" THEN V(<<"c", "1">>)
                ELSE m[c]]
    IN  {record(rule, m) : rule \in {<<"m", "a", "p">>, <<"s", "o", "r", "t">>},
                           m \in metrics}

\* The frames hold up to MaxRows + 1 records, so that a group can hold two
\* values and a missing one.
InitRules ==
    /\ lf \in {[schema |-> [c \in {"rule_name", "MemEfficiencyPercent", "CPUEfficiencyPercent",
                                   "ElapsedRaw", "Elapsed", "QOS", "Account", "NodeList"} |->
                               IF c \in {"MemEfficiencyPercent", "CPUEfficiencyPercent"}
                               THEN "Float64"
                               ELSE IF c = "ElapsedRaw" THEN "Int64" ELSE "String"],
                rows |-> r] :
                   r \in UNION {[1..n -> RuleRows] : n \in 0..(MaxRows + 1)}}
    /\ raw = lf
    /\ pc = "raw"
    /\ date = 0
    /\ fired = NoBranch
    /\ loc = NoBranch

AggregatePerSnakemakeRule ==
    /\ pc = "raw"
    /\ "rule_name" \in DOMAIN lf.schema
    /\ \E order \in Orders(GroupKeys(lf, "rule_name")) :
          lf' = aggregate_per_snakemake_rule(lf, order)
    /\ pc' = "rules"
    /\ UNCHANGED <<date, fired, raw, loc>>

SpecRules == InitRules /\ [][AggregatePerSnakemakeRule]_vars

(***************************************************************************)
(* compute_daily_metrics, generate_daily_report and                        *)
(* generate_aggregate_report (src/app/daily_eff.py).                       *)
(*                                                                         *)
(* The mapping compute_daily_metrics returns is a Python dict: here the    *)
(* sequence of its entries [key, metrics] in insertion order, the key the  *)
(* QOS cell of the group or the text "global".  It is what json.dump       *)
(* writes to the report file of the day.                                   *)
(***************************************************************************)
cpu_secondes == 36633600
gb_secondes == 188611200

Global == <<"g", "l", "o", "b", "a", "l">>

\* add_wait_time_cols is imported from utils but is not part of src/: it is
\* taken to add the two columns compute_daily_metrics reads and nothing else
\* provides, wait_time_seconds (the time between the submission of a job and
\* the start of its execution, null without both) and date (the requested
\* date), and to leave the rows as they are.
add_wait_time_cols(frame, target) ==
    LET waited == WithColumn(frame, "wait_time_seconds", "Int64",
                      [i \in 1..NRows(frame) |->
                          IF IsNull(frame.rows[i].Start) \/ IsNull(frame.rows[i].Submit)
                          THEN NULL
                          ELSE V(I64(to_datetime(frame.rows[i].Start.v)
                                     - to_datetime(frame.rows[i].Submit.v)))])
    IN  WithColumn(waited, "date", "Date", [i \in 1..NRows(frame) |-> V(target)])

\* Mutant of daily_jobs: the jobs are not filtered.
daily_jobs_unfiltered(report, target) ==
    add_wait_time_cols(add_daily_duration(report, target), target)

\* Lines 50 to 54 of compute_daily_metrics, for a frame whose collection
\* does not raise: the jobs that ran on the target day.
daily_jobs(report, target) ==
    LET daily == add_daily_duration(report, target)
        ran == [daily EXCEPT !.rows = SelectSeq(daily.rows,
                   LAMBDA row : row.daily_duration_hours.v.num > 0)]
    IN  add_wait_time_cols(ran, target)

\* Lines 56 to 166 of compute_daily_metrics: the mapping made of the jobs of
\* the day.  group_by("QOS") returns its groups in the order in which
\* `ranking` lists their keys.  A sum skips the nulls, and is 0 when nothing
\* is left.
daily_metrics(jobs, target, ranking) ==
    LET pow[n \in 0..4] == IF n = 0 THEN 1 ELSE Kibi * pow[n - 1]
        int(c) == c.v.m * pow[c.v.e]
        agg(col, key) ==
            LET cpu == NonNull(GroupCells(jobs, col, key, "TotalCPU_seconds"))
                cpu_sum[k \in 0..Len(cpu)] ==
                    IF k = 0 THEN 0 ELSE cpu_sum[k - 1] + int(cpu[k])
                total == cpu_sum[Len(cpu)]
                rss == GroupCells(jobs, col, key, "MaxRSS")
                elapsed == GroupCells(jobs, col, key, "ElapsedRaw")
                gb == NonNull([k \in 1..Len(rss) |->
                          IF IsNull(elapsed[k]) THEN NULL
                          ELSE float_mul(truediv(rss[k], V(I64MulPow(I64(1), 3))),
                                         int(elapsed[k]))])
                gb_sum[k \in 0..Len(gb)] ==
                    IF k = 0 THEN FloatLit(0) ELSE float_add(gb_sum[k - 1], gb[k].v)
                gb_total == gb_sum[Len(gb)]
                wait == GroupCells(jobs, col, key, "wait_time_seconds")
                cast == [k \in 1..Len(wait) |->
                            IF IsNull(wait[k]) THEN NULL ELSE V(FloatLit(int(wait[k])))]
            IN  [CPU_Secondes |-> V(I64(total)),
                 CPU_Heures |-> V(Frac(total, SecondsPerHour)),
                 Pourcentage_CPU |-> V(Frac(total * 100, cpu_secondes)),
                 GB_Secondes |-> V(gb_total),
                 Taux_RAM |-> V(Frac(gb_total.num * 100, gb_total.den * gb_secondes)),
                 attente_moyen |-> float_mean(cast),
                 attente_median |-> float_median(cast),
                 attente_minimum |-> int_min(wait),
                 attente_maximum |-> int_max(wait)]
        present == SelectSeq(ranking, LAMBDA q : q \in GroupKeys(jobs, "QOS"))
        qos_metrics == [k \in 1..Len(present) |->
                           [key |-> present[k], metrics |-> agg("QOS", present[k])]]
        global_metrics == [k \in 1..Cardinality(GroupKeys(jobs, "date")) |->
                              [key |-> V(Global), metrics |-> agg("date", V(target))]]
    IN  IF global_metrics = <<>> THEN qos_metrics
        ELSE IF \E k \in 1..Len(qos_metrics) : qos_metrics[k].key = V(Global)
        THEN [k \in 1..Len(qos_metrics) |->
                 IF qos_metrics[k].key = V(Global) THEN global_metrics[1]
                 ELSE qos_metrics[k]]
        ELSE qos_metrics \o global_metrics

\* The accounting records of a day: job 7 and its batch step, both of QOS
\* normal, ran on day 1 from midnight to noon; the other jobs differ in their
\* QOS, in the day they ran on, or have no Start or End yet.
MetricsRows ==
    LET ts(d, s) == V([day |-> d, sec |-> s])
        text(s) == V(s)
        usual == [JobID |-> text(<<"7">>),
                  QOS |-> text(<<"n", "o", "r", "m", "a", "l">>),
                  Submit |-> ts(1, 0), Start |-> ts(1, 0), End |-> ts(1, 43200),
                  TotalCPU |-> text(<<"0", "0", ":", "0", "2", ":", "0", "0">>),
                  ElapsedRaw |-> V(I64(60)),
                  MaxRSS |-> text(<<"5", "1", "2", "M">>),
                  ReqMem |-> text(<<"8", "G">>),
                  AllocCPUS |-> V(I64(2))]
        urgent == text(<<"u", "r", "g", "e", "n", "t">>)
    IN  {usual,
         [usual EXCEPT !.JobID = text(<<"7">> \o DotBatch), !.ReqMem = NULL],
         [usual EXCEPT !.JobID = text(<<"1", "2">>), !.QOS = urgent,
                       !.Submit = ts(0, 43200), !.Start = ts(0, 43200),
                       !.TotalCPU = text(<<"0", "0", ":", "0", "1", ":", "0", "0">>)],
         [usual EXCEPT !.JobID = text(<<"3", "0">>), !.QOS = urgent,
                       !.Submit = ts(0, 43200), !.MaxRSS = NULL],
         [usual EXCEPT !.JobID = text(<<"3", "1">>), !.QOS = text(Global)],
         [usual EXCEPT !.JobID = text(<<"3", "2">>), !.QOS = NULL],
         [usual EXCEPT !.JobID = text(<<"3", "3">>),
                       !.Submit = ts(0, 0), !.Start = ts(0, 0), !.End = ts(0, 43200)],
         [usual EXCEPT !.JobID = text(<<"3", "4">>), !.Start = NULL, !.End = NULL],
         [usual EXCEPT !.JobID = text(<<"3", "5">>),
                       !.End = V([text |-> "Unknown"])]}

InitMetrics ==
    /\ lf \in FramesOf([c \in {"JobID", "QOS", "Submit", "Start", "End", "TotalCPU",
                               "ElapsedRaw", "MaxRSS", "ReqMem", "AllocCPUS"} |->
                           IF c \in {"ElapsedRaw", "AllocCPUS"} THEN "Int64" ELSE "String"],
                       MetricsRows)
    /\ raw = lf
    /\ pc = "raw"
    /\ date \in TargetDays
    /\ fired = NoBranch
    /\ loc = NoBranch

\* compute_daily_metrics after generic_report, lines 50 to 54, and the
\* collection of the frame: pc is "raised" when str.to_datetime raises.
DailyJobs ==
    /\ pc = "report"
    /\ "QOS" \in DOMAIN lf.schema
    /\ IF str_to_datetime_raises(lf)
       THEN /\ pc' = "raised"
            /\ UNCHANGED lf
       ELSE /\ lf' = daily_jobs(lf, date)
            /\ pc' = "jobs"
    /\ UNCHANGED <<date, fired, raw, loc>>

\* The rest of compute_daily_metrics, and json.dump in generate_daily_report:
\* lf becomes the mapping written to the report file of the day.
DailyMetrics ==
    /\ pc = "jobs"
    /\ \E ranking \in Orders(GroupKeys(lf, "QOS")) :
          lf' = daily_metrics(lf, date, ranking)
    /\ pc' = "written"
    /\ UNCHANGED <<date, fired, raw, loc>>

\* generate_aggregate_report up to the reading of the keys of the loaded
\* reports (lines 309 to 315): load_json_reports loads the report of each day
\* of the range that has one, and a key that a report lacks is a KeyError.
GenerateAggregateReport ==
    /\ pc \in {"raw", "written"}
    /\ "Submit" \in DOMAIN raw.schema
    /\ \E from_date \in Days, to_date \in Days :
          LET reports == IF pc = "written" /\ from_date <= date /\ date <= to_date
                         THEN <<lf>> ELSE <<>>
              read == {<<"d", "a", "t", "e">>,
                       <<"t", "o", "t", "a", "l", "_", "c", "p", "u", "_",
                         "h", "o", "u", "r", "s">>,
                       <<"t", "o", "t", "a", "l", "_", "m", "e", "m", "o", "r", "y", "_",
                         "g", "b", "_", "h", "o", "u", "r", "s">>,
                       <<"j", "o", "b", "_", "c", "o", "u", "n", "t">>}
          IN  /\ loc' = [reports |-> reports]
              /\ pc' = IF \A r \in 1..Len(reports) : \A name \in read :
                              \E k \in 1..Len(reports[r]) : reports[r][k].key = V(name)
                       THEN "aggregated" ELSE "KeyError"
    /\ UNCHANGED <<lf, date, fired, raw>>

NextMetrics ==
    \/ PrepareFields
    \/ AggregateAllocs
    \/ GenericEfficiency
    \/ DailyJobs
    \/ DailyMetrics
    \/ GenerateAggregateReport

SpecMetrics == InitMetrics /\ [][NextMetrics]_vars

\* The two aggregations into Summary Records, per QOS and per rule.
SpecSummary ==
    (InitMetrics \/ InitRules) /\ [][NextMetrics \/ AggregatePerSnakemakeRule]_vars

(***************************************************************************)
(* sacct_sanitizer (src/app/usage-report.py, and the same function in      *)
(* src/app/main.py and src/main.py).  The input file is the sequence of    *)
(* its lines, the separator is the default "|", and a line is the sequence *)
(* of its characters.  loc holds the local variables of the loop: the      *)
(* position i of the line read next, the lines written to fo, and          *)
(* lines_removed.                                                          *)
(***************************************************************************)
\* Mutant of line_is_kept: what the docstring announces, lines with more
\* than col_count columns are removed.
line_is_kept_up_to(line, col_count) ==
    Cardinality({k \in 1..Len(line) : line[k] = "|"}) <= col_count - 1

\* not (line.count(separator) != col_count - 1)
line_is_kept(line, col_count) ==
    Cardinality({k \in 1..Len(line) : line[k] = "|"}) = col_count - 1

InitSanitizer ==
    /\ raw \in [lines : UNION {[1..n -> {<<>>, <<"a">>, <<"|">>, <<"a", "|", "b">>,
                                         <<"|", "|">>, <<"a", "|", "|", "b">>,
                                         <<"a", "|", "b", "|", "c", "|">>}] :
                                  n \in 0..MaxRows},
               col_count : 1..3]
    /\ loc = [i |-> 1, fo |-> <<>>, lines_removed |-> 0]
    /\ pc = "sanitizing"
    /\ lf = NoBranch
    /\ date = 0
    /\ fired = NoBranch

\* One turn of the loop over the lines of fi, or the return at its end.
SacctSanitizer ==
    /\ pc = "sanitizing"
    /\ IF loc.i > Len(raw.lines)
       THEN /\ pc' = "returned"
            /\ UNCHANGED loc
       ELSE /\ loc' = IF line_is_kept(raw.lines[loc.i], raw.col_count)
                      THEN [loc EXCEPT !.i = @ + 1,
                                       !.fo = Append(@, raw.lines[loc.i])]
                      ELSE [loc EXCEPT !.i = @ + 1, !.lines_removed = @ + 1]
            /\ UNCHANGED pc
    /\ UNCHANGED <<lf, date, fired, raw>>

SpecSanitizer == InitSanitizer /\ [][SacctSanitizer]_vars

(***************************************************************************)
(* snakemake_log_records_generator (src/app/extract_snakemake_logs.py).    *)
(* The log is the sequence of its lines.  loc holds the position i of the  *)
(* line read next, current_record, and the records yielded so far.         *)
(* current_record is None or a list of at least one line: the empty        *)
(* sequence stands for None.                                               *)
(***************************************************************************)
\* Mutant of read_log_line: a line read before any record starts one.
read_log_line_keeping_preamble(state, line) ==
    IF Len(line) > 0 /\ line[1] = "["
    THEN [state EXCEPT !.yielded = IF state.current_record # <<>>
                                   THEN Append(@, state.current_record) ELSE @,
                       !.current_record = <<line>>]
    ELSE [state EXCEPT !.current_record = Append(@, line)]

\* The body of the loop over the lines of the log.
read_log_line(state, line) ==
    IF Len(line) > 0 /\ line[1] = "["
    THEN [state EXCEPT !.yielded = IF state.current_record # <<>>
                                   THEN Append(@, state.current_record) ELSE @,
                       !.current_record = <<line>>]
    ELSE IF state.current_record # <<>>
         THEN [state EXCEPT !.current_record = Append(@, line)]
         ELSE state

InitLogRecords ==
    /\ raw \in [lines : UNION {[1..n -> {<<>>, <<"a">>, <<"[">>, <<"[", "a">>,
                                         <<"a", "[">>}] :
                                  n \in 0..MaxRows + 2}]
    /\ loc = [i |-> 1, current_record |-> <<>>, yielded |-> <<>>]
    /\ pc = "reading"
    /\ lf = NoBranch
    /\ date = 0
    /\ fired = NoBranch

\* One turn of the loop, or the end of the file, where the last record is
\* yielded if there is one.
SnakemakeLogRecordsGenerator ==
    /\ pc = "reading"
    /\ IF loc.i > Len(raw.lines)
       THEN /\ pc' = "exhausted"
            /\ loc' = [loc EXCEPT !.yielded = IF loc.current_record # <<>>
                                              THEN Append(@, loc.current_record)
                                              ELSE @]
       ELSE /\ loc' = [read_log_line(loc, raw.lines[loc.i]) EXCEPT !.i = @ + 1]
            /\ UNCHANGED pc
    /\ UNCHANGED <<lf, date, fired, raw>>

SpecLogRecords == InitLogRecords /\ [][SnakemakeLogRecordsGenerator]_vars

(***************************************************************************)
(* plot_cluster_memory_tiles (src/plot_memory_tiles.py), the vertical      *)
(* placement of the jobs of the window.  Times are whole hours and memory  *)
(* is in whole units.  loc holds the position i of the job placed next,    *)
(* the list active of (end, ytop) pairs and the rectangles added to the    *)
(* axes so far.                                                            *)
(***************************************************************************)
\* The while loop: y starts at 0 and is moved to the top of the first
\* active slot it is in conflict with, until no slot is in conflict.
RECURSIVE free_position(_, _, _)
free_position(active, height, y) ==
    LET conflicts == {k \in 1..Len(active) :
                         /\ ~(y + height <= active[k].ytop - height
                              \/ y >= active[k].ytop)
                         /\ y < active[k].ytop}
    IN  IF conflicts = {} THEN y
        ELSE free_position(active, height,
                 active[CHOOSE k \in conflicts : \A j \in conflicts : k <= j].ytop)

\* The jobs of the window, sorted by Start.
InitTiles ==
    /\ raw \in [jobs : UNION {{jobs \in [1..n -> [Start : 0..2,
                                                  Elapsed_seconds : 1..2,
                                                  ReqMem_bytes : {1, 2, 4}]] :
                                  \A k \in 1..n - 1 :
                                      jobs[k].Start <= jobs[k + 1].Start} :
                              n \in 1..MaxRows}]
    /\ loc = [i |-> 1, active |-> <<>>, placed |-> <<>>]
    /\ pc = "placing"
    /\ lf = NoBranch
    /\ date = 0
    /\ fired = NoBranch

\* One turn of the loop over the jobs, or its end.  The end stored in active
\* is start + pl.duration(seconds=elapsed): where that sum is a polars
\* expression, the test end > start of the next turn has no truth value and
\* raises TypeError; where it is a time, the slot is dropped once it ended.
PlaceJob ==
    /\ pc = "placing"
    /\ \/ /\ loc.i > Len(raw.jobs)
          /\ pc' = "drawn"
          /\ UNCHANGED loc
       \/ /\ loc.i <= Len(raw.jobs)
          /\ loc.active # <<>>
          /\ pc' = "TypeError"
          /\ UNCHANGED loc
       \/ /\ loc.i <= Len(raw.jobs)
          /\ LET row == raw.jobs[loc.i]
                 start == row.Start
                 height == row.ReqMem_bytes
                 active == SelectSeq(loc.active, LAMBDA slot : slot.end > start)
                 y == free_position(active, height, 0)
             IN  loc' = [i |-> loc.i + 1,
                         active |-> Append(active,
                                       [end |-> start + row.Elapsed_seconds,
                                        ytop |-> y + height]),
                         placed |-> Append(loc.placed,
                                       [start |-> start,
                                        end |-> start + row.Elapsed_seconds,
                                        y |-> y, height |-> height])]
          /\ UNCHANGED pc
    /\ UNCHANGED <<lf, date, fired, raw>>

SpecTiles == InitTiles /\ [][PlaceJob]_vars

(***************************************************************************)
(* The claims about the daily-overlap calculator.                          *)
(***************************************************************************)
RowStart(i) == to_datetime(raw.rows[i].Start.v)
RowEnd(i) == to_datetime(raw.rows[i].End.v)
DailyHours(i) == lf.rows[i].daily_duration_hours

\* The length in seconds of the intersection of [s, e) with the target day.
OverlapSeconds(s, e, target) ==
    Max2(0, Min2(e, day_end(target)) - Max2(s, day_start(target)))

\* C1: for every record with Start <= End, daily_duration_hours is the length
\* in hours of the intersection of [Start, End) with the target day: End - Start
\* when both fall on the target date, End - day_start when the job started
\* earlier and ends on the target date, day_end - Start when it starts on the
\* target date and ends at or after day_end, 24.0 when it spans the whole day
\* (midnight to midnight included), 0.0 when it lies entirely before or after
\* the day; each record is computed from its own Start and End alone, and the
\* other columns and the number of records are left as they were.
C1_DailyOverlap ==
    pc = "daily" =>
        /\ NRows(lf) = NRows(raw)
        /\ \A i \in 1..NRows(lf) :
              LET s == RowStart(i)
                  e == RowEnd(i)
                  lo == day_start(date)
                  hi == day_end(date)
                  h == DailyHours(i)
              IN  /\ lf.rows[i].Start = raw.rows[i].Start
                  /\ lf.rows[i].End = raw.rows[i].End
                  /\ s <= e =>
                       /\ h = V(Frac(OverlapSeconds(s, e, date), SecondsPerHour))
                       /\ (lo <= s /\ s < hi /\ lo <= e /\ e < hi)
                             => h = V(Frac(e - s, SecondsPerHour))
                       /\ (s < lo /\ lo <= e /\ e < hi)
                             => h = V(Frac(e - lo, SecondsPerHour))
                       /\ (lo <= s /\ s < hi /\ e >= hi)
                             => h = V(Frac(hi - s, SecondsPerHour))
                       /\ (s <= lo /\ e >= hi) => h = V(FloatLit(24))
                       /\ (e <= lo \/ s >= hi) => h = V(FloatLit(0))

\* A frame of two records, one running from target midnight to the next
\* midnight (24 hours) and one that started the day before at noon and ended
\* at noon of the target day (12 hours).
C1_Witness ==
    /\ pc = "daily"
    /\ NRows(lf) = 2
    /\ RowStart(1) = day_start(date) /\ RowEnd(1) = day_end(date)
    /\ DailyHours(1) = V(FloatLit(24))
    /\ RowStart(2) < day_start(date) /\ RowEnd(2) = day_start(date) + 43200
    /\ DailyHours(2) = V(FloatLit(12))

IsMidnightToMidnight(i) ==
    RowStart(i) = day_start(date) /\ RowEnd(i) = day_end(date)

\* C2 as stated: a job running exactly from target 00:00:00 to target+1 day
\* 00:00:00 is classified under case 1 (both Start and End on the target
\* date), and case 1's formula End - Start produces its 24.0 hours.
C2_Original ==
    pc = "daily" =>
        \A i \in 1..NRows(lf) :
            IsMidnightToMidnight(i) =>
                /\ fired[i] = 1
                /\ DailyHours(i) = V(hours_between(RowEnd(i), RowStart(i)))

\* C2 amended: such a job is not a case 1 job (the date of its End is the next
\* day); it is classified under case 3 (Start on the target date, End at or
\* after the end of the target day), and case 3's formula day_end - Start
\* produces its 24.0 hours.
C2_MidnightIsCase3 ==
    pc = "daily" =>
        \A i \in 1..NRows(lf) :
            IsMidnightToMidnight(i) =>
                /\ fired[i] = 3
                /\ ~same_day(RowStart(i), RowEnd(i), date)
                /\ DailyHours(i) = V(hours_between(day_end(date), RowStart(i)))
                /\ DailyHours(i) = V(FloatLit(24))

C2_Witness ==
    /\ pc = "daily"
    /\ \E i \in 1..NRows(lf) : IsMidnightToMidnight(i) /\ fired[i] = 3

(***************************************************************************)
(* The claims about the hierarchy classifier and the allocation            *)
(* aggregator.                                                             *)
(***************************************************************************)
\* An identifier of the shape ^digits(\.suffix)?$: a run of digits, alone or
\* followed by a "." and at least one more character.  (An identifier is a
\* field of one line of the accounting file: it holds no newline.)
WellFormedJobID(s) ==
    LET n == DigitRunLen(s, 1)
    IN  /\ n >= 1
        /\ (n = Len(s) \/ (s[n + 1] = "." /\ Len(s) >= n + 2))

DigitRunOf(s) == SubSeq(s, 1, DigitRunLen(s, 1))
TailOf(s) == SubSeq(s, DigitRunLen(s, 1) + 1, Len(s))

\* The record kind the classification table gives to a well-formed identifier.
TableKind(s) ==
    LET t == TailOf(s)
    IN  IF t = <<>> THEN Allocation
        ELSE IF t = DotBatch THEN Batch
        ELSE IF t = DotExtern THEN Extern
        ELSE IF AllDigits(Tail(t)) THEN Step
        ELSE Unknown

RawJobID(i) == raw.rows[i].JobID.v

\* C3: for every identifier made of a run of digits optionally followed by a
\* "."-suffix, JobRoot is exactly the digit run and JobInfoType is allocation
\* without suffix, batch for ".batch", extern for ".extern", step for "."
\* followed only by digits, and unknown for any other suffix.
C3_Classification ==
    pc = "typed" =>
        \A i \in 1..NRows(lf) :
            WellFormedJobID(RawJobID(i)) =>
                /\ lf.rows[i].JobID = raw.rows[i].JobID
                /\ lf.rows[i].JobRoot = V(DigitRunOf(RawJobID(i)))
                /\ lf.rows[i].JobInfoType = V(TableKind(RawJobID(i)))

\* A step of allocation 12 beside a record of allocation 7 with a suffix that
\* starts like a step but is none.
C3_Witness ==
    /\ pc = "typed"
    /\ NRows(lf) = 2
    /\ RawJobID(1) = <<"1", "2", ".", "1", "5">>
    /\ lf.rows[1].JobRoot = V(<<"1", "2">>)
    /\ lf.rows[1].JobInfoType = V(Step)
    /\ RawJobID(2) = <<"7", ".", "0", "a">>
    /\ lf.rows[2].JobInfoType = V(Unknown)

\* C4 as stated: for every identifier that does not match the whole pattern
\* ^digits(\.suffix)?$ the classifier yields record_kind = unknown and leaves
\* parent_key unset.
C4_Original ==
    pc = "typed" =>
        \A i \in 1..NRows(lf) :
            ~WellFormedJobID(RawJobID(i)) =>
                /\ lf.rows[i].JobInfoType = V(Unknown)
                /\ lf.rows[i].JobRoot = NULL

\* The rows of a classified frame whose identifier is well formed, in order.
WellFormedRows(frame) ==
    [schema |-> frame.schema,
     rows |-> SelectSeq(frame.rows, LAMBDA row : WellFormedJobID(row.JobID.v))]

\* C5 as stated: a record whose identifier is malformed contributes to no
\* Allocation Record, and is merged neither with another malformed record nor
\* with a well-formed one: the Allocation Records are those of the well-formed
\* records alone.
C5_Original ==
    pc = "alloc" =>
        LET kept == WellFormedRows(add_slurm_jobinfo_type_columns(raw))
        IN  \E order \in Orders(GroupKeys(kept, "JobRoot")) :
                lf = aggregate_per_alloc(kept, "JobRoot", order)

(***************************************************************************)
(* The claims about the size parser.                                       *)
(***************************************************************************)
RawSize(i) == raw.rows[i].ReqMem

\* The text is exactly a run of digits followed by one letter of `units`.
ExactSize(cell, units) ==
    /\ ~IsNull(cell)
    /\ Len(cell.v) >= 2
    /\ AllDigits(SubSeq(cell.v, 1, Len(cell.v) - 1))
    /\ cell.v[Len(cell.v)] \in units

SizeNumber(cell) == StrToInt(SubSeq(cell.v, 1, Len(cell.v) - 1))
SizeUnit(cell) == cell.v[Len(cell.v)]

\* The power of 1024 a unit letter stands for, in either case.
UnitPower(u) ==
    CASE u \in {"K", "k"} -> 1
      [] u \in {"M", "m"} -> 2
      [] u \in {"G", "g"} -> 3
      [] u \in {"T", "t"} -> 4

\* C6: for every size text <integer><unit> with unit K, M or G, add_units_kmg
\* followed by convert_kmg_col yields integer * 1024, integer * 1024^2 or
\* integer * 1024^3 bytes ("512M" gives 536870912, "2G" gives 2 * 1024^3).
C6_SizeKMG ==
    pc = "bytes" =>
        \A i \in 1..NRows(lf) :
            /\ ExactSize(RawSize(i), {"K", "M", "G"}) =>
                  lf.rows[i].ReqMem =
                      V(I64MulPow(I64(SizeNumber(RawSize(i))), UnitPower(SizeUnit(RawSize(i)))))
            /\ RawSize(i) = V(<<"5", "1", "2", "M">>) => lf.rows[i].ReqMem = V(I64(536870912))
            /\ RawSize(i) = V(<<"2", "G">>) => lf.rows[i].ReqMem = V([m |-> 2, e |-> 3])

C6_Witness ==
    /\ pc = "bytes"
    /\ NRows(lf) = 2
    /\ RawSize(1) = V(<<"5", "1", "2", "M">>)
    /\ lf.rows[1].ReqMem = V(I64(536870912))
    /\ RawSize(2) = V(<<"1", "0", "K">>)
    /\ lf.rows[2].ReqMem = V(I64(10240))

\* C7 as stated: a size text <integer>T is converted to a non-missing byte
\* value, integer * 1024^4.
C7_Original ==
    pc = "bytes" =>
        \A i \in 1..NRows(lf) :
            ExactSize(RawSize(i), {"T"}) =>
                lf.rows[i].ReqMem = V(I64MulPow(I64(SizeNumber(RawSize(i))), 4))

\* The same text with its last character (the unit letter) in upper case.
UpperOf(u) ==
    CASE u = "k" -> "K" [] u = "m" -> "M" [] u = "g" -> "G" [] u = "t" -> "T"
      [] OTHER -> u

SameButCase(a, b) ==
    /\ Len(a.v) = Len(b.v)
    /\ SubSeq(a.v, 1, Len(a.v) - 1) = SubSeq(b.v, 1, Len(b.v) - 1)
    /\ UpperOf(SizeUnit(a)) = SizeUnit(b)

\* C8 as stated: for every integer n and unit letter u of K, M, G, T, the
\* lower-case spelling parses to the same byte value as the upper-case one.
C8_Original ==
    pc = "bytes" =>
        \A i, j \in 1..NRows(lf) :
            (/\ ExactSize(RawSize(i), LowerUnits)
             /\ ExactSize(RawSize(j), UpperUnits)
             /\ SameButCase(RawSize(i), RawSize(j)))
                => lf.rows[i].ReqMem = lf.rows[j].ReqMem

\* C9 as stated: every size text that is not exactly a run of digits followed
\* by one recognized unit letter parses to a missing value.
C9_Original ==
    pc = "bytes" =>
        \A i \in 1..NRows(lf) :
            (/\ ~IsNull(RawSize(i))
             /\ ~ExactSize(RawSize(i), UpperUnits \cup LowerUnits))
                => lf.rows[i].ReqMem = NULL

(***************************************************************************)
(* The claims about the duration parser.                                   *)
(***************************************************************************)
RawCpu(i) == raw.rows[i].TotalCPU

\* The ways to cut s at one occurrence of each separator of seps, in order,
\* into Len(seps) + 1 non-empty runs of digits: the sequences of these runs.
DigitFields(s, seps) ==
    LET n == Len(seps)
        cuts == {p \in [1..n -> 1..Len(s)] :
                    /\ \A k \in 1..n : s[p[k]] = seps[k]
                    /\ \A k \in 1..(n - 1) : p[k] < p[k + 1]}
        piece(p, k) == SubSeq(s, IF k = 1 THEN 1 ELSE p[k - 1] + 1,
                                 IF k = n + 1 THEN Len(s) ELSE p[k] - 1)
        fields(p) == [k \in 1..(n + 1) |-> piece(p, k)]
    IN  {fields(p) : p \in {q \in cuts :
            \A k \in 1..(n + 1) : Len(piece(q, k)) >= 1 /\ AllDigits(piece(q, k))}}

\* The seconds the contract gives to a text of one of the three shapes:
\* D-HH:MM:SS, HH:MM:SS, MM:SS.fraction (absent components are zero, the
\* fraction is dropped).
ContractSeconds(s) ==
    {StrToInt(f[1]) * 86400 + StrToInt(f[2]) * 3600 + StrToInt(f[3]) * 60 + StrToInt(f[4]) :
        f \in DigitFields(s, <<"-", ":", ":">>)}
    \cup {StrToInt(f[1]) * 3600 + StrToInt(f[2]) * 60 + StrToInt(f[3]) :
        f \in DigitFields(s, <<":", ":">>)}
    \cup {StrToInt(f[1]) * 60 + StrToInt(f[2]) :
        f \in DigitFields(s, <<":", ".">>)}

CpuSecondsOf(i) == lf.rows[i].TotalCPU_seconds

\* C10: for every TotalCPU text in one of the shapes D-HH:MM:SS, HH:MM:SS or
\* MM:SS.fraction, parse_total_cpu_col yields the integer days * 86400 +
\* hours * 3600 + minutes * 60 + seconds, absent components counting as zero
\* and the fraction truncated ("1-02:03:04" gives 93784, "02:03:04" gives
\* 7384, "03:04.5" gives 184).
C10_TotalCpuSeconds ==
    pc \in {"cpu", "cpu_v1"} =>
        \A i \in 1..NRows(lf) :
            ~IsNull(RawCpu(i)) =>
                /\ \A n \in ContractSeconds(RawCpu(i).v) : CpuSecondsOf(i) = V(I64(n))
                /\ RawCpu(i).v \in TextsDHMS \cup TextsHMS \cup TextsMSFraction
                      => ContractSeconds(RawCpu(i).v) # {}
                /\ RawCpu(i).v = <<"1", "-", "0", "2", ":", "0", "3", ":", "0", "4">>
                      => CpuSecondsOf(i) = V(I64(93784))
                /\ RawCpu(i).v = <<"0", "2", ":", "0", "3", ":", "0", "4">>
                      => CpuSecondsOf(i) = V(I64(7384))
                /\ RawCpu(i).v = <<"0", "3", ":", "0", "4", ".", "5">>
                      => CpuSecondsOf(i) = V(I64(184))

C10_Witness ==
    /\ pc = "cpu"
    /\ NRows(lf) = 2
    /\ RawCpu(1) = V(<<"1", "-", "0", "2", ":", "0", "3", ":", "0", "4">>)
    /\ CpuSecondsOf(1) = V(I64(93784))
    /\ fired[1] = 1
    /\ RawCpu(2) = V(<<"0", "3", ":", "0", "4", ".", "5">>)
    /\ CpuSecondsOf(2) = V(I64(184))
    /\ fired[2] = 3

\* The cell holds a text of none of the three shapes, or no text at all.
Unrecognised(cell) == IsNull(cell) \/ ContractSeconds(cell.v) = {}

\* C11 as stated: for every TotalCPU that matches none of the three shapes,
\* the empty string and a missing value included, parse_total_cpu_col yields a
\* missing TotalCPU_seconds, not zero.
C11_Original ==
    pc \in {"cpu", "cpu_v1"} =>
        \A i \in 1..NRows(lf) :
            Unrecognised(RawCpu(i)) => CpuSecondsOf(i) = NULL

(***************************************************************************)
(* The claims about the allocation aggregator and the efficiency           *)
(* calculator of generic_report.                                           *)
(***************************************************************************)
\* The parent key of raw record i: the leading run of digits of its
\* identifier, none when the identifier does not start with a digit.
ParentKey(i) ==
    IF DigitRunLen(RawJobID(i), 1) = 0 THEN NULL ELSE V(DigitRunOf(RawJobID(i)))

\* The raw records of parent key `key`, by their position in the input.
Constituents(key) == {i \in 1..NRows(raw) : ParentKey(i) = key}

\* C12: aggregate_per_alloc (and smart_aggregate) produces exactly one output
\* record per distinct parent key of the input: every key of the input is the
\* JobRoot of exactly one output record, and every output record carries the
\* key of some input record (the records without a parent key, if any, form
\* one record of their own).
C12_OneRecordPerKey ==
    pc \in {"merged", "smart"} =>
        /\ \A i \in 1..NRows(raw) :
              Cardinality({k \in 1..NRows(lf) : lf.rows[k].JobRoot = ParentKey(i)}) = 1
        /\ \A k \in 1..NRows(lf) : Constituents(lf.rows[k].JobRoot) # {}
        /\ NRows(lf) = Cardinality({ParentKey(i) : i \in 1..NRows(raw)})

\* The allocation row of job 7 and its batch step are merged into one record.
C12_Witness ==
    /\ pc = "merged"
    /\ NRows(raw) = 2
    /\ RawJobID(1) = <<"7">> \o DotBatch
    /\ RawJobID(2) = <<"7">>
    /\ NRows(lf) = 1
    /\ lf.rows[1].JobRoot = V(<<"7">>)

\* The records of column c of `input` that belong to parent key `key` and
\* hold a value, by their position.
Holders(input, key, c) ==
    {i \in Constituents(key) : ~IsNull(input.rows[i][c])}

\* cell is the maximum of the non-missing values of column c in the group of
\* `key`, and missing when there is none.
IsMaximum(cell, input, key, c) ==
    IF Holders(input, key, c) = {} THEN cell = NULL
    ELSE /\ \E i \in Holders(input, key, c) : cell = input.rows[i][c]
         /\ \A i \in Holders(input, key, c) :
               IF input.schema[c] = "Int64" THEN I64Leq(input.rows[i][c].v, cell.v)
               ELSE FloatLeq(input.rows[i][c].v, cell.v)

\* cell is the first non-missing value of column c, in input order, in the
\* group of `key`, and missing when there is none.
IsFirstNonMissing(cell, input, key, c) ==
    IF Holders(input, key, c) = {} THEN cell = NULL
    ELSE \E i \in Holders(input, key, c) :
            /\ cell = input.rows[i][c]
            /\ \A j \in Holders(input, key, c) : i <= j

\* cell is what the type-driven default reducer makes of column c.
IsDefaultReduced(cell, input, key, c) ==
    IF input.schema[c] \in {"Int64", "Float64"} THEN IsMaximum(cell, input, key, c)
    ELSE IsFirstNonMissing(cell, input, key, c)

\* C13: in every Allocation Record each numeric field (Int64 or Float64) is
\* the maximum of the non-missing values of the field among the records of
\* its group, each text field is the first non-missing value in input order
\* among them, and a field missing in every record of the group is missing.
C13_DefaultReducers ==
    pc = "merged" =>
        \A input \in {generic_report_fields(raw)} :
            \A k \in 1..NRows(lf) :
                \A c \in (DOMAIN lf.schema) \ {"JobRoot"} :
                    /\ lf.schema[c] \in {"Int64", "Float64"}
                          => IsMaximum(lf.rows[k][c], input, lf.rows[k].JobRoot, c)
                    /\ lf.schema[c] = "String"
                          => IsFirstNonMissing(lf.rows[k][c], input, lf.rows[k].JobRoot, c)
                    /\ Holders(input, lf.rows[k].JobRoot, c) = {} => lf.rows[k][c] = NULL

\* The first record of job 7 has no TotalCPU and 60 elapsed seconds, the
\* second has a TotalCPU and 0 elapsed seconds.
C13_Witness ==
    /\ pc = "merged"
    /\ NRows(raw) = 2
    /\ NRows(lf) = 1
    /\ raw.rows[1].TotalCPU = NULL
    /\ raw.rows[2].TotalCPU = V(<<"0", "0", ":", "0", "2", ":", "0", "0">>)
    /\ lf.rows[1].TotalCPU = raw.rows[2].TotalCPU
    /\ raw.rows[1].ElapsedRaw = V(I64(60))
    /\ raw.rows[2].ElapsedRaw = V(I64(0))
    /\ lf.rows[1].ElapsedRaw = V(I64(60))
    /\ lf.rows[1].JobID = raw.rows[1].JobID

\* The frame with its rows in the order p, a permutation of their positions.
Permuted(frame, p) ==
    [frame EXCEPT !.rows = [i \in 1..Len(frame.rows) |-> frame.rows[p[i]]]]

EightG == <<"8", "G">>

\* C14: when the records of a parent key carry a requested memory of "8G" on
\* one row and a missing one on the others, the Allocation Record's ReqMem
\* is 8 * 1024^3 bytes, never missing, whichever row comes first; and the
\* reduced value of every numeric field is the same for every order of the
\* input records.
C14_OrderIndependent ==
    pc = "merged" =>
        /\ \A k \in 1..NRows(lf) :
              (/\ \E i \in Constituents(lf.rows[k].JobRoot) : raw.rows[i].ReqMem = V(EightG)
               /\ \A i \in Constituents(lf.rows[k].JobRoot) :
                     raw.rows[i].ReqMem \in {V(EightG), NULL})
                 => lf.rows[k].ReqMem = V([m |-> 8, e |-> 3])
        /\ \A p \in Orders(1..NRows(raw)) :
              \A other \in {aggregate_per_alloc(generic_report_fields(Permuted(raw, p)),
                                "JobRoot", [k \in 1..NRows(lf) |-> lf.rows[k].JobRoot])} :
                  \A k \in 1..NRows(lf) :
                      \A c \in DOMAIN lf.schema :
                          lf.schema[c] \in {"Int64", "Float64"}
                              => other.rows[k][c] = lf.rows[k][c]

\* The batch step, without ReqMem, comes before the allocation row with "8G".
C14_Witness ==
    /\ pc = "merged"
    /\ NRows(raw) = 2
    /\ RawJobID(1) = <<"7">> \o DotBatch
    /\ raw.rows[1].ReqMem = NULL
    /\ RawJobID(2) = <<"7">>
    /\ raw.rows[2].ReqMem = V(EightG)
    /\ NRows(lf) = 1
    /\ lf.rows[1].ReqMem = V([m |-> 8, e |-> 3])

\* The records of parent key `key` whose record kind is allocation and that
\* hold a value in column c of `input`.
AllocationHolders(input, key, c) ==
    {i \in Holders(input, key, c) : input.rows[i].JobInfoType = V(Allocation)}

\* cell is what the reducer named `name` makes of column c in the group of
\* `key`: the minimum of the non-missing values for "min", the first
\* non-missing value among the allocation rows for "allocation_first".
IsCustomReduced(name, cell, input, key, c) ==
    IF name = "min"
    THEN IF Holders(input, key, c) = {} THEN cell = NULL
         ELSE /\ \E i \in Holders(input, key, c) : cell = input.rows[i][c]
              /\ \A i \in Holders(input, key, c) : I64Leq(cell.v, input.rows[i][c].v)
    ELSE IF AllocationHolders(input, key, c) = {} THEN cell = NULL
         ELSE \E i \in AllocationHolders(input, key, c) :
                 /\ cell = input.rows[i][c]
                 /\ \A j \in AllocationHolders(input, key, c) : i <= j

\* C15: smart_aggregate applies the reducer the caller supplied to exactly
\* the fields named in `behavior`, the type-driven default reducer to every
\* other field, and never reduces the grouping column, named in `behavior`
\* or not: it holds the key of the group.
C15_BehaviorOverride ==
    pc = "smart" =>
        \A input \in {generic_report_fields(raw)} :
            \A k \in 1..NRows(lf) :
                /\ Constituents(lf.rows[k].JobRoot) # {}
                /\ \A c \in (DOMAIN lf.schema) \ {"JobRoot"} :
                      IF c \in DOMAIN fired
                      THEN IsCustomReduced(fired[c], lf.rows[k][c], input, lf.rows[k].JobRoot, c)
                      ELSE IsDefaultReduced(lf.rows[k][c], input, lf.rows[k].JobRoot, c)

\* TotalCPU is reduced by "allocation_first" and AllocCPUS by "min": the
\* batch step comes first, and the Allocation Record takes the TotalCPU of
\* the allocation row and the MaxRSS of the default reducer.
C15_Witness ==
    /\ pc = "smart"
    /\ DOMAIN fired = {"TotalCPU", "AllocCPUS"}
    /\ NRows(raw) = 2
    /\ RawJobID(1) = <<"7">> \o DotBatch
    /\ raw.rows[1].TotalCPU = V(<<"0", "0", ":", "0", "2", ":", "0", "0">>)
    /\ RawJobID(2) = <<"7">>
    /\ raw.rows[2].TotalCPU = V(<<"0", "0", ":", "0", "1", ":", "0", "0">>)
    /\ NRows(lf) = 1
    /\ lf.rows[1].TotalCPU = raw.rows[2].TotalCPU
    /\ lf.rows[1].JobID = raw.rows[1].JobID

\* C16 as stated: CPU-time-used is converted to seconds for each raw record
\* before the records are grouped, so the TotalCPU_seconds of an Allocation
\* Record is the maximum, over the records of its group, of their parsed
\* TotalCPU.
C16_Original ==
    pc = "report" =>
        LET parsed == parse_total_cpu_col(raw)
        IN  \A k \in 1..NRows(lf) :
                /\ ~IsNull(lf.rows[k].TotalCPU_seconds)
                /\ \E i \in Constituents(lf.rows[k].JobRoot) :
                      lf.rows[k].TotalCPU_seconds = parsed.rows[i].TotalCPU_seconds
                /\ \A i \in Constituents(lf.rows[k].JobRoot) :
                      I64Leq(parsed.rows[i].TotalCPU_seconds.v,
                             lf.rows[k].TotalCPU_seconds.v)

\* The Float64 cell is a finite number p with p * den = 100 * num, for the
\* Int64 values num and den (compared as products, without dividing).
IsPercentOf(cell, num, den) ==
    /\ ~IsNull(cell)
    /\ cell.v.den > 0
    /\ I64Norm(cell.v.num * den.m, den.e) = I64Norm(100 * cell.v.den * num.m, num.e)

\* C17: for every Allocation Record whose operands are not missing and whose
\* denominator is not zero, MemEfficiencyPercent = 100 * MaxRSS / ReqMem
\* (in bytes) and CPUEfficiencyPercent = 100 * TotalCPU_seconds /
\* (ElapsedRaw * AllocCPUS).
C17_EfficiencyPercent ==
    pc = "report" =>
        \A k \in 1..NRows(lf) :
            LET r == lf.rows[k]
            IN  /\ (~IsNull(r.MaxRSS) /\ ~IsNull(r.ReqMem) /\ r.ReqMem.v.m # 0)
                      => IsPercentOf(r.MemEfficiencyPercent, r.MaxRSS.v, r.ReqMem.v)
                /\ (/\ ~IsNull(r.TotalCPU_seconds)
                     /\ ~IsNull(r.ElapsedRaw)
                     /\ ~IsNull(r.AllocCPUS)
                     /\ r.ElapsedRaw.v.m * r.AllocCPUS.v.m # 0)
                      => IsPercentOf(r.CPUEfficiencyPercent, r.TotalCPU_seconds.v,
                                     I64Norm(r.ElapsedRaw.v.m * r.AllocCPUS.v.m,
                                             r.ElapsedRaw.v.e + r.AllocCPUS.v.e))

\* 512M used of 8G is 6.25 percent; 60 seconds of CPU in 60 seconds on 2 CPUs
\* is 50 percent.
C17_Witness ==
    /\ pc = "report"
    /\ NRows(lf) = 1
    /\ lf.rows[1].MaxRSS = V([m |-> 512, e |-> 2])
    /\ lf.rows[1].ReqMem = V([m |-> 8, e |-> 3])
    /\ lf.rows[1].MemEfficiencyPercent = V([num |-> 25, den |-> 4])
    /\ lf.rows[1].TotalCPU_seconds = V(I64(60))
    /\ lf.rows[1].ElapsedRaw = V(I64(60))
    /\ lf.rows[1].AllocCPUS = V(I64(2))
    /\ lf.rows[1].CPUEfficiencyPercent = V(FloatLit(50))

\* C18 as stated: when the denominator of an efficiency ratio is zero
\* (ReqMem = 0, or ElapsedRaw * AllocCPUS = 0), the efficiency percent is
\* missing: not infinity, not NaN, not zero, the 0 / 0 case included.
C18_Original ==
    pc = "report" =>
        \A k \in 1..NRows(lf) :
            LET r == lf.rows[k]
            IN  /\ (~IsNull(r.ReqMem) /\ r.ReqMem.v.m = 0)
                      => r.MemEfficiencyPercent = NULL
                /\ (/\ ~IsNull(r.ElapsedRaw)
                     /\ ~IsNull(r.AllocCPUS)
                     /\ r.ElapsedRaw.v.m * r.AllocCPUS.v.m = 0)
                      => r.CPUEfficiencyPercent = NULL

\* The TotalCPU text of an Allocation Record is missing or of none of the
\* three shapes.
NoCpuTime(r) == Unrecognised(r.TotalCPU)

\* C19 as stated: when an operand of an efficiency ratio is missing (MaxRSS
\* or ReqMem; TotalCPU, absent or unparseable, ElapsedRaw or AllocCPUS), the
\* efficiency percent of the Allocation Record is missing, not zero.
C19_Original ==
    pc = "report" =>
        \A k \in 1..NRows(lf) :
            LET r == lf.rows[k]
            IN  /\ (IsNull(r.MaxRSS) \/ IsNull(r.ReqMem))
                      => r.MemEfficiencyPercent = NULL
                /\ (NoCpuTime(r) \/ IsNull(r.ElapsedRaw) \/ IsNull(r.AllocCPUS))
                      => r.CPUEfficiencyPercent = NULL

(***************************************************************************)
(* The claims about the group aggregator.                                  *)
(***************************************************************************)
\* The raw records of rule `key` that hold a value in column c, by position.
Present(key, c) ==
    {i \in 1..NRows(raw) : raw.rows[i].rule_name = key /\ ~IsNull(raw.rows[i][c])}

\* The sum of the values of column c over the raw records of S.
RECURSIVE SumOver(_, _)
SumOver(S, c) ==
    IF S = {} THEN FloatLit(0)
    ELSE LET i == CHOOSE j \in S : TRUE
         IN  float_add(raw.rows[i][c].v, SumOver(S \ {i}, c))

\* The number of the records of S whose value of column c is below x, or at
\* most x.
Below(S, c, x) == Cardinality({k \in S : ~FloatLeq(x, raw.rows[k][c].v)})
AtMost(S, c, x) == Cardinality({k \in S : FloatLeq(raw.rows[k][c].v, x)})

\* cell is the median of the values of column c over the records of S: the
\* mean of the lower and the upper middle value in sorted order.
IsMedianOf(cell, S, c) ==
    LET n == Cardinality(S)
    IN  \E i, j \in S :
            LET lo == raw.rows[i][c].v
                hi == raw.rows[j][c].v
            IN  /\ Below(S, c, lo) < (n + 1) \div 2
                /\ (n + 1) \div 2 <= AtMost(S, c, lo)
                /\ Below(S, c, hi) < n \div 2 + 1
                /\ n \div 2 + 1 <= AtMost(S, c, hi)
                /\ Frac(cell.v.num * 2, cell.v.den) = float_add(lo, hi)

\* C20: in every group of the group aggregator the mean, median, min and max
\* of a metric are those of the non-missing values of the group alone, and
\* missing when the group holds no value: a missing value never counts as
\* zero (the values 10, 20 and missing have the mean 15.0).
C20_MissingExcluded ==
    pc = "rules" =>
        \A k \in 1..NRows(lf) :
            \A c \in {"MemEfficiencyPercent", "CPUEfficiencyPercent"} :
                LET S == Present(lf.rows[k].rule_name, c)
                    n == Cardinality(S)
                    mean == lf.rows[k][c \o "_mean"]
                    median == lf.rows[k][c \o "_median"]
                    min == lf.rows[k][c \o "_min"]
                    max == lf.rows[k][c \o "_max"]
                IN  IF n = 0
                    THEN mean = NULL /\ median = NULL /\ min = NULL /\ max = NULL
                    ELSE /\ ~IsNull(mean)
                         /\ Frac(mean.v.num * n, mean.v.den) = SumOver(S, c)
                         /\ ~IsNull(median)
                         /\ IsMedianOf(median, S, c)
                         /\ \E i \in S : min = raw.rows[i][c]
                         /\ \A i \in S : FloatLeq(min.v, raw.rows[i][c].v)
                         /\ \E i \in S : max = raw.rows[i][c]
                         /\ \A i \in S : FloatLeq(raw.rows[i][c].v, max.v)

\* Three records of one rule with the memory efficiencies missing, 20 and 10.
C20_Witness ==
    /\ pc = "rules"
    /\ NRows(raw) = 3
    /\ NRows(lf) = 1
    /\ raw.rows[1].MemEfficiencyPercent = NULL
    /\ raw.rows[2].MemEfficiencyPercent = V(FloatLit(20))
    /\ raw.rows[3].MemEfficiencyPercent = V(FloatLit(10))
    /\ lf.rows[1].MemEfficiencyPercent_mean = V(FloatLit(15))
    /\ lf.rows[1].MemEfficiencyPercent_median = V(FloatLit(15))
    /\ lf.rows[1].MemEfficiencyPercent_min = V(FloatLit(10))
    /\ lf.rows[1].MemEfficiencyPercent_max = V(FloatLit(20))

(***************************************************************************)
(* The claims about the daily metrics.                                     *)
(***************************************************************************)
\* The Start or End of the job of parent key `key`: the first non-missing
\* value of the field among its raw records, or missing.
JobField(key, c) ==
    IF Holders(raw, key, c) = {} THEN NULL
    ELSE raw.rows[CHOOSE i \in Holders(raw, key, c) :
                      \A j \in Holders(raw, key, c) : i <= j][c]

\* The job has a Start and an End that are timestamps.
JobIsTimed(key) ==
    \A c \in {"Start", "End"} :
        ~IsNull(JobField(key, c)) /\ "day" \in DOMAIN JobField(key, c).v

\* The job ran on the target day: its Start and End are timestamps and
\* daily_duration_hours is positive for them.
JobRan(key) ==
    /\ JobIsTimed(key)
    /\ daily_duration(to_datetime(JobField(key, "Start").v),
                      to_datetime(JobField(key, "End").v), date).num > 0

RawJobs == {ParentKey(i) : i \in 1..NRows(raw)}

RanJobs == {key \in RawJobs : JobRan(key)}

\* C22 as stated, for a day on which some job ran: the mapping that
\* compute_daily_metrics returns holds exactly one entry per distinct QOS
\* value among the jobs that ran on the target day and, in addition and
\* distinct from them, one entry of key "global".
C22_Original ==
    (pc = "written" /\ RanJobs # {}) =>
        LET qos == {JobField(key, "QOS") : key \in RanJobs}
        IN  /\ \A q \in qos : Cardinality({k \in 1..Len(lf) : lf[k].key = q}) = 1
            /\ Cardinality({k \in 1..Len(lf) : lf[k].key = V(Global)}) = 1
            /\ Len(lf) = Cardinality(qos) + 1

\* The mapping a run of generate_daily_report on the input makes when
\* aggregate_per_alloc returns the allocations in the order `allocs` and
\* group_by("QOS") its groups in the order `ranking`.
Rerun(allocs, ranking) ==
    LET fields == generic_report_fields(raw)
        merged == aggregate_per_alloc(fields, "JobRoot", allocs)
        report == generic_report_efficiency(merged)
        jobs == daily_jobs(report, date)
    IN  daily_metrics(jobs, date, ranking)

\* C23 as stated: a second run of the full pipeline on the same ordered
\* input yields the same Summary Records as the first, with the same keys,
\* the same values and the same order of entries, whatever order the two
\* group_by of the second run return their groups in.
C23_Original ==
    pc = "written" =>
        \A allocs \in Orders(RawJobs) :
            \A ranking \in Orders({JobField(key, "QOS") : key \in RanJobs}) :
                Rerun(allocs, ranking) = lf

(***************************************************************************)
(* The claims about malformed records and the cases of the daily overlap.  *)
(***************************************************************************)
\* The Start or the End of raw record i is missing or is no timestamp.
Malformed(i) ==
    \E c \in {"Start", "End"} :
        IsNull(raw.rows[i][c]) \/ "text" \in DOMAIN raw.rows[i][c].v

\* C24 as stated: no record aborts the pipeline; add_daily_duration gives a
\* record whose Start or End is missing or unparseable a missing or zero
\* daily_duration_hours, and every other record is still processed (it gets
\* the duration of its own Start and End) and returned.
C24_Original ==
    /\ pc # "raised"
    /\ pc = "daily" =>
          /\ NRows(lf) = NRows(raw)
          /\ \A i \in 1..NRows(lf) :
                IF Malformed(i) THEN DailyHours(i) \in {NULL, V(FloatLit(0))}
                ELSE DailyHours(i) = V(daily_duration(RowStart(i), RowEnd(i), date))

(***************************************************************************)
(* The claims about the functions that read a file line by line.           *)
(***************************************************************************)
\* C25: when sacct_sanitizer returns, the output file holds exactly the
\* input lines in which the separator occurs exactly col_count - 1 times,
\* unmodified and in their original order, and the count returned is the
\* number of input lines not written: written + returned = input lines.
C25_Sanitizer ==
    pc = "returned" =>
        /\ loc.fo = SelectSeq(raw.lines,
                        LAMBDA line : Len(SelectSeq(line, LAMBDA ch : ch = "|"))
                                          = raw.col_count - 1)
        /\ Len(loc.fo) + loc.lines_removed = Len(raw.lines)

\* With col_count = 2, a line of two columns is written and a line of three
\* columns is removed.
C25_Witness ==
    /\ pc = "returned"
    /\ raw.col_count = 2
    /\ raw.lines = << <<"a", "|", "|", "b">>, <<"a", "|", "b">> >>
    /\ loc.fo = << <<"a", "|", "b">> >>
    /\ loc.lines_removed = 1

StartsRecord(line) == Len(line) > 0 /\ line[1] = "["

RECURSIVE Concatenation(_)
Concatenation(records) ==
    IF records = <<>> THEN <<>>
    ELSE Head(records) \o Concatenation(Tail(records))

\* The lines of the log from the first line that starts with "[" to the end.
FromFirstRecord(lines) ==
    LET starts == {k \in 1..Len(lines) : StartsRecord(lines[k])}
    IN  IF starts = {} THEN <<>>
        ELSE SubSeq(lines, CHOOSE k \in starts : \A j \in starts : k <= j,
                    Len(lines))

\* C26: when the generator is exhausted, the first line of every record it
\* yielded starts with "[" and no other line of a record does, the lines
\* before the first "["-line are in no record, and the yielded records
\* concatenated in order are the input from the first "["-line to its end.
C26_Records ==
    pc = "exhausted" =>
        /\ \A r \in 1..Len(loc.yielded) :
               /\ Len(loc.yielded[r]) >= 1
               /\ \A k \in 1..Len(loc.yielded[r]) :
                      StartsRecord(loc.yielded[r][k]) <=> k = 1
        /\ Concatenation(loc.yielded) = FromFirstRecord(raw.lines)

\* A preamble line, a record of two lines and a record of one line.
C26_Witness ==
    /\ pc = "exhausted"
    /\ raw.lines = << <<"a">>, <<"[", "a">>, <<"a", "[">>, <<"[">> >>
    /\ loc.yielded = << << <<"[", "a">>, <<"a", "[">> >>, << <<"[">> >> >>

TrueCases(s, e, target) ==
    {k \in 1..4 : \/ k = 1 /\ same_day(s, e, target)
                  \/ k = 2 /\ case_started_before(s, e, target)
                  \/ k = 3 /\ case_ended_after(s, e, target)
                  \/ k = 4 /\ spanning(s, e, target)}

\* C28: for every Start and End the predicates of the four cases other
\* than otherwise are pairwise exclusive: at most one of them is true, and
\* when one is true it is the case that fired, whatever the order in which
\* the chain lists them.
C28_Exclusive ==
    pc = "daily" =>
        \A i \in 1..NRows(lf) :
            \A cases \in {TrueCases(to_datetime(lf.rows[i].Start.v),
                                     to_datetime(lf.rows[i].End.v), date)} :
                /\ Cardinality(cases) <= 1
                /\ cases # {} => cases = {fired[i]}
                /\ cases = {} => fired[i] = 5

\* A frame with a job that spans the day and a job that started at midnight
\* and ended on the day.
C28_Witness ==
    /\ pc = "daily"
    /\ \E i \in 1..NRows(lf) : fired[i] = 4
    /\ \E i \in 1..NRows(lf) :
           fired[i] = 1 /\ to_datetime(lf.rows[i].Start.v) = day_start(date)

\* C29: for every record and target date, daily_duration_hours is at least
\* 0 and at most 24, whatever the order of Start and End.
C29_Original ==
    pc = "daily" =>
        \A i \in 1..NRows(lf) :
            /\ lf.rows[i].daily_duration_hours.v.den > 0
            /\ lf.rows[i].daily_duration_hours.v.num >= 0
            /\ lf.rows[i].daily_duration_hours.v.num
                   <= 24 * lf.rows[i].daily_duration_hours.v.den

(***************************************************************************)
(* The claim about the keys of the daily report.                           *)
(***************************************************************************)
\* The keys generate_aggregate_report reads from each loaded report.
KeysRead ==
    {<<"d", "a", "t", "e">>,
     <<"t", "o", "t", "a", "l", "_", "c", "p", "u", "_", "h", "o", "u", "r", "s">>,
     <<"t", "o", "t", "a", "l", "_", "m", "e", "m", "o", "r", "y", "_",
       "g", "b", "_", "h", "o", "u", "r", "s">>,
     <<"j", "o", "b", "_", "c", "o", "u", "n", "t">>}

\* C30: every report written by generate_daily_report holds the keys date,
\* total_cpu_hours, total_memory_gb_hours and job_count at its top level,
\* and generate_aggregate_report over a range of days whose reports were
\* written that way never fails on a missing key.
C30_Original ==
    /\ pc = "written" =>
           \A name \in KeysRead : \E k \in 1..Len(lf) : lf[k].key = V(name)
    /\ pc # "KeyError"

====
